---- MODULE Spec2Model ----
(***************************************************************************)
(* State-machine model of the FootballSimulator backend: the weekly game   *)
(* simulation engine (scores, stat lines, play-by-play log, injuries) and  *)
(* the roster / trade validator, as implemented in                         *)
(*   src/backend/app/services/simulation_service.py                        *)
(*   src/backend/app/services/trade_service.py                             *)
(*   src/backend/app/services/roster_service.py                            *)
(*   src/backend/main.py                                                   *)
(*                                                                         *)
(* Real numbers are carried as scaled integers: points in hundredths,      *)
(* yards in tenths, uniform draws in hundredths.  Python's round() and     *)
(* int() are modelled by RoundHalfEven and TruncDiv.                       *)
(***************************************************************************)
EXTENDS Integers, Sequences, FiniteSets, TLC

VARIABLES
    scoreCall,   \* one call of SimulationService._generate_scores
    statCall,    \* one call of SimulationService._generate_team_stats (stat part)
    logCall,     \* one call of SimulationService._generate_play_log
    players,     \* table players: id -> row (committed database state)
    picks,       \* table draft_picks: id -> row (committed database state)
    tradeReq,    \* the trade request in flight (POST /trades/execute or /trades/propose)
    narratives,  \* table week_narratives: week -> rows
    rngTab,      \* the draws random.Random(seed) yields, a fixed function of the seed
    games,       \* table games: id -> row (committed database state)
    events,      \* table game_events: game id -> sequence of persisted plays
    statRows,    \* tables team_game_stats / player_game_stats: game id -> rows
    now,         \* wall clock used for played_at
    last,        \* the last API request handled and its outcome
    breakCall,   \* one call of SimulationService._score_breakdown
    conc,        \* two POST /simulate-week requests on connections of their own
    twin,        \* the same game simulated in two databases seeded alike
    labelCall,   \* one call of SimulationService._impact_label
    injuryCall   \* one call of SimulationService._apply_injuries

vars == <<scoreCall, statCall, logCall, players, picks, tradeReq, games, events, statRows,
          narratives, rngTab, now, last, breakCall, conc, twin, labelCall, injuryCall>>

\* The database tables, the requests in flight and the last response.
apiVars == <<players, picks, tradeReq, games, events, statRows, narratives, rngTab, now, last>>

callVars == <<scoreCall, statCall, logCall>>

\* The score breakdown call and the requests and databases that run side by side.
auxVars == <<breakCall, conc, twin, labelCall, injuryCall>>

\* The calls of _impact_label and _apply_injuries.
unitVars == <<labelCall, injuryCall>>

\* The tables and inputs of the week simulation.
weekVars == <<games, events, statRows, narratives, rngTab, now>>

(***************************************************************************)
(* Arithmetic helpers                                                      *)
(***************************************************************************)
Max(a, b) == IF a >= b THEN a ELSE b

Min(a, b) == IF a <= b THEN a ELSE b

Abs(a) == IF a < 0 THEN -a ELSE a

\* Python int(x) for x = n/d, d > 0: truncation toward zero.
TruncDiv(n, d) == IF n >= 0 THEN n \div d ELSE -((-n) \div d)

\* Python round(x) for x = n/d, d > 0: round half to even.
RoundHalfEven(n, d) ==
    LET q == n \div d
        r == n % d
    IN  IF 2 * r < d THEN q
        ELSE IF 2 * r > d THEN q + 1
        ELSE IF q % 2 = 0 THEN q ELSE q + 1

(***************************************************************************)
(* SimulationRules (defaults of load_simulation_rules)                     *)
(***************************************************************************)
base_points == 24

rating_factor_pct == 35

home_field_advantage == 3

min_score == 10

max_score == 48

\* Fixed-point scale of points: ratings arrive in hundredths and are multiplied
\* by rating_factor in hundredths, so points are carried in ten-thousandths.
PointScale == 10000

(***************************************************************************)
(* Score generator                                                         *)
(***************************************************************************)
\* _clamp_score(value) for value = v / PointScale.
ClampScore_NoUpperBound(v) == Max(min_score, RoundHalfEven(v, PointScale))

ClampScore(v) ==
    LET score == RoundHalfEven(v, PointScale)
        lifted == Max(min_score, score)
    IN  Min(max_score, lifted)

\* _generate_scores(rng, home_rating, away_rating); the ratings are in hundredths,
\* g1, g2 are the two rng.gauss(0, random_variance) samples in ten-thousandths of
\* a point, coinHigh tells whether rng.random() > 0.5.  The coin is drawn only
\* on a tie.
GenerateScores(home_rating, away_rating, g1, g2, coinHigh) ==
    LET diff == (home_rating - away_rating) * rating_factor_pct
                  + home_field_advantage * PointScale
        home_points == base_points * PointScale + diff + g1
        away_points == base_points * PointScale - diff + g2
        home0 == ClampScore(home_points)
        away0 == ClampScore(away_points)
        home1 == IF home0 = away0
                 THEN ClampScore((home0 + (IF coinHigh THEN 3 ELSE -3)) * PointScale)
                 ELSE home0
    IN  [home |-> home1, away |-> away0, tied |-> home0 = away0, pre |-> home0]

\* Bounds of the sampled inputs of the score generator.
NoiseStep == 25000

MaxNoiseSteps == 12

ScoreNoise == {k * NoiseStep : k \in -MaxNoiseSteps..MaxNoiseSteps}

ScoreRatings == {6000, 8000, 9500}

InitScoreCall ==
    scoreCall \in [home_rating : ScoreRatings, away_rating : ScoreRatings,
                   g1 : ScoreNoise, g2 : ScoreNoise, coinHigh : BOOLEAN,
                   done : {FALSE},
                   out : {[home |-> 0, away |-> 0, tied |-> FALSE, pre |-> 0]}]

IdleScoreCall == [home_rating |-> 8000, away_rating |-> 8000, g1 |-> 0, g2 |-> 0,
                  coinHigh |-> FALSE, done |-> TRUE,
                  out |-> [home |-> 0, away |-> 0, tied |-> FALSE, pre |-> 0]]

CallGenerateScores ==
    /\ scoreCall.done = FALSE
    /\ scoreCall' = [scoreCall EXCEPT
                       !.done = TRUE,
                       !.out = GenerateScores(scoreCall.home_rating, scoreCall.away_rating,
                                              scoreCall.g1, scoreCall.g2, scoreCall.coinHigh)]
    /\ UNCHANGED <<statCall, logCall, apiVars, auxVars>>

(***************************************************************************)
(* Random generator                                                        *)
(*                                                                         *)
(* rng = random.Random(seed) is a deterministic stream of draws.  A stream *)
(* is modelled by a table of RngPeriod raw draws, each in 0..RngLevels-1,  *)
(* read cyclically; pos counts the draws consumed so far.                  *)
(***************************************************************************)
RngPeriod == 3

RngLevels == 5

RngTables == [1..RngPeriod -> 0..(RngLevels - 1)]

NewRng(table) == [tab |-> table, pos |-> 0]

Raw(rng) == rng.tab[(rng.pos % Len(rng.tab)) + 1]

Advance(rng) == [rng EXCEPT !.pos = rng.pos + 1]

\* rng.random() in hundredths: the lower edge of the raw draw's bin of [0, 1).
Random100(rng) == (Raw(rng) * 100) \div RngLevels

\* randbelow(n), as used by rng.shuffle.
RandBelow(rng, n) == Raw(rng) % n

\* Length of a game in tenths of a second that rng.uniform(0, 59.9) spans.
MarkerSpan == 35940

\* rng.uniform(0, 59.9) minutes, carried in tenths of a second.
UniformMarker(rng) == ((2 * Raw(rng) + 1) * MarkerSpan) \div (2 * RngLevels)

(***************************************************************************)
(* Play-by-play reconstruction                                             *)
(***************************************************************************)
RECURSIVE Sevens_Six(_)
Sevens_Six(remaining) ==
    IF remaining > 13 THEN <<6>> \o Sevens_Six(remaining - 7) ELSE <<>>

RECURSIVE Sevens(_)
\* The loop "while remaining > 13: breakdown.append(7); remaining -= 7".
Sevens(remaining) ==
    IF remaining > 13 THEN <<7>> \o Sevens(remaining - 7) ELSE <<>>

RECURSIVE AfterSevens(_)
AfterSevens(remaining) ==
    IF remaining > 13 THEN AfterSevens(remaining - 7) ELSE remaining

\* tail_map of _score_breakdown with a remainder that is no key dropped.
TailMap_NoFallback(remaining) ==
    CASE remaining = 0 -> <<>>
      [] remaining = 2 -> <<2>>
      [] remaining = 3 -> <<3>>
      [] remaining = 4 -> <<2, 2>>
      [] remaining = 5 -> <<3, 2>>
      [] remaining = 6 -> <<3, 3>>
      [] remaining = 7 -> <<7>>
      [] remaining = 8 -> <<8>>
      [] remaining = 9 -> <<7, 2>>
      [] remaining = 10 -> <<7, 3>>
      [] remaining = 11 -> <<8, 3>>
      [] remaining = 12 -> <<7, 3, 2>>
      [] remaining = 13 -> <<7, 3, 3>>
      [] OTHER -> <<>>

\* tail_map of _score_breakdown; a remainder that is no key (1) is appended as is.
TailMap(remaining) ==
    CASE remaining = 0 -> <<>>
      [] remaining = 2 -> <<2>>
      [] remaining = 3 -> <<3>>
      [] remaining = 4 -> <<2, 2>>
      [] remaining = 5 -> <<3, 2>>
      [] remaining = 6 -> <<3, 3>>
      [] remaining = 7 -> <<7>>
      [] remaining = 8 -> <<8>>
      [] remaining = 9 -> <<7, 2>>
      [] remaining = 10 -> <<7, 3>>
      [] remaining = 11 -> <<8, 3>>
      [] remaining = 12 -> <<7, 3, 2>>
      [] remaining = 13 -> <<7, 3, 3>>
      [] OTHER -> <<remaining>>

Swap(seq, i, j) == [seq EXCEPT ![i] = seq[j], ![j] = seq[i]]

RECURSIVE FisherYates(_, _, _)
\* rng.shuffle(x): for i in reversed(range(1, len(x))): j = randbelow(i + 1);
\* x[i], x[j] = x[j], x[i].  i is the 0-based index of the code.
FisherYates(seq, i, rng) ==
    IF i < 1 THEN [val |-> seq, rng |-> rng]
    ELSE LET j == RandBelow(rng, i + 1)
         IN  FisherYates(Swap(seq, i + 1, j + 1), i - 1, Advance(rng))

\* _score_breakdown(rng, score): returns the list and the advanced generator.
ScoreBreakdown(rng, score) ==
    IF score <= 0 THEN [val |-> <<>>, rng |-> rng]
    ELSE LET breakdown == Sevens(score) \o TailMap(AfterSevens(score))
         IN  FisherYates(breakdown, Len(breakdown) - 1, rng)

RECURSIVE AttachMarkers(_, _, _)
\* [{"team": t, "points": value, "marker": rng.uniform(0, 59.9)} for value in values]
AttachMarkers(team, values, rng) ==
    IF values = <<>> THEN [val |-> <<>>, rng |-> rng]
    ELSE LET ev == [team |-> team, points |-> Head(values), marker |-> UniformMarker(rng)]
             rest == AttachMarkers(team, Tail(values), Advance(rng))
         IN  [val |-> <<ev>> \o rest.val, rng |-> rest.rng]

RECURSIVE InsertByMarker(_, _)
\* Insert ev behind every element whose marker is <= its own (stable order).
InsertByMarker(sorted, ev) ==
    IF sorted = <<>> THEN <<ev>>
    ELSE IF Head(sorted).marker <= ev.marker
         THEN <<Head(sorted)>> \o InsertByMarker(Tail(sorted), ev)
         ELSE <<ev>> \o sorted

RECURSIVE SortByMarker(_)
\* timeline.sort(key=lambda item: item["marker"]): a stable sort.
SortByMarker(timeline) ==
    IF timeline = <<>> THEN <<>>
    ELSE InsertByMarker(SortByMarker(SubSeq(timeline, 1, Len(timeline) - 1)),
                        timeline[Len(timeline)])

\* f"{minutes:02}:{seconds:02}" as its four digits.
FormatClock(minutes, seconds) ==
    <<minutes \div 10, minutes % 10, seconds \div 10, seconds % 10>>

\* The seconds a formatted clock stands for.
ClockSeconds(clock) == (clock[1] * 10 + clock[2]) * 60 + clock[3] * 10 + clock[4]

\* _time_from_marker(marker), marker in tenths of a second.
TimeFromMarker(marker) ==
    LET total0 == TruncDiv(marker, 10)
        max_seconds == 15 * 4 * 60 - 1
        total_seconds == Max(0, Min(total0, max_seconds))
        quarter_index == Min(total_seconds \div (15 * 60), 3)
        seconds_into_quarter == total_seconds - quarter_index * 15 * 60
        remaining_seconds == 15 * 60 - seconds_into_quarter
    IN  [quarter |-> quarter_index + 1,
         clock |-> FormatClock(remaining_seconds \div 60, remaining_seconds % 60)]

\* _impact_label without its cuts_deficit branch.
ImpactLabel_NoCutsDeficit(home_before, away_before, home_after, away_after, scoring_team) ==
    LET before_margin == IF scoring_team = "home" THEN home_before - away_before
                         ELSE away_before - home_before
        after_margin == IF scoring_team = "home" THEN home_after - away_after
                        ELSE away_after - home_after
    IN  IF home_after = away_after THEN "ties_game"
        ELSE IF before_margin <= 0 /\ 0 < after_margin THEN "takes_lead"
        ELSE IF before_margin > 0 /\ after_margin > before_margin THEN "extends_lead"
        ELSE IF before_margin < 0 /\ 0 <= after_margin THEN "ties_game"
        ELSE "keeps_pressure"

\* _impact_label with both margins taken from the home side.
ImpactLabel_MarginOfHome(home_before, away_before, home_after, away_after, scoring_team) ==
    LET before_margin == home_before - away_before
        after_margin == home_after - away_after
    IN  IF home_after = away_after THEN "ties_game"
        ELSE IF before_margin <= 0 /\ 0 < after_margin THEN "takes_lead"
        ELSE IF before_margin > 0 /\ after_margin > before_margin THEN "extends_lead"
        ELSE IF before_margin < 0 /\ after_margin < 0 THEN "cuts_deficit"
        ELSE IF before_margin < 0 /\ 0 <= after_margin THEN "ties_game"
        ELSE "keeps_pressure"

\* _impact_label(home_before, away_before, home_after, away_after, scoring_team)
ImpactLabel(home_before, away_before, home_after, away_after, scoring_team) ==
    LET before_margin == IF scoring_team = "home" THEN home_before - away_before
                         ELSE away_before - home_before
        after_margin == IF scoring_team = "home" THEN home_after - away_after
                        ELSE away_after - home_after
    IN  IF home_after = away_after THEN "ties_game"
        ELSE IF before_margin <= 0 /\ 0 < after_margin THEN "takes_lead"
        ELSE IF before_margin > 0 /\ after_margin > before_margin THEN "extends_lead"
        ELSE IF before_margin < 0 /\ after_margin < 0 THEN "cuts_deficit"
        ELSE IF before_margin < 0 /\ 0 <= after_margin THEN "ties_game"
        ELSE "keeps_pressure"

\* highlight_type chosen by _describe_play from the points of the play.
HighlightType(points) ==
    IF points >= 7 THEN "touchdown"
    ELSE IF points = 3 THEN "field_goal"
    ELSE IF points = 2 THEN "safety"
    ELSE "score"

RECURSIVE RunTimeline(_, _, _, _)
\* The loop over enumerate(timeline, start=1) of _generate_play_log.
RunTimeline(timeline, sequence, home_running, away_running) ==
    IF timeline = <<>> THEN <<>>
    ELSE LET event == Head(timeline)
             t == TimeFromMarker(event.marker)
             home_after == IF event.team = "home" THEN home_running + event.points
                           ELSE home_running
             away_after == IF event.team = "home" THEN away_running
                           ELSE away_running + event.points
             play == [sequence |-> sequence,
                      quarter |-> t.quarter,
                      clock |-> t.clock,
                      team |-> event.team,
                      type |-> HighlightType(event.points),
                      impact |-> ImpactLabel(home_running, away_running,
                                             home_after, away_after, event.team),
                      points |-> event.points,
                      score |-> [home |-> home_after, away |-> away_after]]
         IN  <<play>> \o RunTimeline(Tail(timeline), sequence + 1, home_after, away_after)

OrderTimeline_Unsorted(timeline) == timeline

\* The merged timeline in the order in which the plays are emitted.
OrderTimeline(timeline) == SortByMarker(timeline)

\* _generate_play_log(rng, home_score, away_score): the plays and the generator.
GeneratePlayLog(rng, home_score, away_score) ==
    LET hb == ScoreBreakdown(rng, home_score)
        he == AttachMarkers("home", hb.val, hb.rng)
        ab == ScoreBreakdown(he.rng, away_score)
        ae == AttachMarkers("away", ab.val, ab.rng)
        timeline == he.val \o ae.val
    IN  [val |-> RunTimeline(OrderTimeline(timeline), 1, 0, 0), rng |-> ae.rng]

\* Bound of the final scores sampled for the play log.
MaxLogScore == 14

InitLogCall ==
    logCall \in [home_score : 0..MaxLogScore, away_score : 0..MaxLogScore,
                 table : RngTables, done : {FALSE}, plays : {<<>>}]

IdleLogCall == [home_score |-> 0, away_score |-> 0, table |-> [i \in 1..RngPeriod |-> 0],
                done |-> TRUE, plays |-> <<>>]

CallGeneratePlayLog ==
    /\ logCall.done = FALSE
    /\ logCall' = [logCall EXCEPT
                     !.done = TRUE,
                     !.plays = GeneratePlayLog(NewRng(logCall.table),
                                               logCall.home_score, logCall.away_score).val]
    /\ UNCHANGED <<scoreCall, statCall, apiVars, auxVars>>

\* _score_breakdown on its own: every score up to max_score, every stream.
InitBreakCall ==
    breakCall \in [score : 0..max_score, table : RngTables, done : {FALSE}, out : {<<>>}]

IdleBreakCall == [score |-> 0, table |-> [i \in 1..RngPeriod |-> 0], done |-> TRUE,
                  out |-> <<>>]

CallScoreBreakdown ==
    /\ breakCall.done = FALSE
    /\ breakCall' = [breakCall EXCEPT
                       !.done = TRUE,
                       !.out = ScoreBreakdown(NewRng(breakCall.table), breakCall.score).val]
    /\ UNCHANGED <<callVars, apiVars, conc, twin, unitVars>>

(***************************************************************************)
(* Stat generator                                                          *)
(***************************************************************************)
passing_yards_per_rating_x10 == 70

rushing_yards_per_rating_x10 == 45

receiving_yards_per_rating_x10 == 55

defense_big_play_factor_pct == 5

\* A row that stands for "no such player" (fetchone() returning None).
NoPlayer == [present |-> FALSE, id |-> 0, team_id |-> 0, position |-> "",
             overall_rating |-> 0]

\* _player_stat_template(player): the stat line with every counter at zero.
PlayerStatTemplate(player) ==
    [player_id |-> player.id, team_id |-> player.team_id, position |-> player.position,
     passing_yards |-> 0, passing_tds |-> 0, interceptions |-> 0,
     rushing_yards |-> 0, rushing_tds |-> 0,
     receiving_yards |-> 0, receiving_tds |-> 0,
     tackles |-> 0, sacks_x10 |-> 0, forced_turnovers |-> 0]

\* int(rating * yards_per_rating + rng.gauss(0, sigma)); noise10 is the sample in
\* tenths of a yard.
YardsOf(rating, per_rating_x10, noise10) == TruncDiv(rating * per_rating_x10 + noise10, 10)

\* max(0, int(round(team_points / per + rng.random() - offset))), u100 and offset100
\* in hundredths.
TouchdownsOf(team_points, per, u100, offset100) ==
    Max(0, RoundHalfEven(100 * team_points + per * u100 - per * offset100, 100 * per))

\* The stat part of _generate_team_stats(connection, rng, team, team_points, ...):
\* qb, rb, wr, defender are the depth-chart leaders (NoPlayer when absent), d the
\* samples drawn from rng, each already scaled.
TeamStats(qb, rb, wr, defender, team_points, d) ==
    LET turnovers == Max(0, TruncDiv(Abs(d.turnover_g10), 10))
        passing_yards == YardsOf(qb.overall_rating, passing_yards_per_rating_x10, d.pass_noise10)
        passing_tds == TouchdownsOf(team_points, 14, d.pass_td_u, 0)
        interceptions == Min(3, Max(0, TruncDiv(d.int_g10, 10)))
        rushing_yards == YardsOf(rb.overall_rating, rushing_yards_per_rating_x10, d.rush_noise10)
        rushing_tds == TouchdownsOf(team_points, 21, d.rush_td_u, 30)
        receiving_yards == YardsOf(wr.overall_rating, receiving_yards_per_rating_x10, d.recv_noise10)
        receiving_tds == TouchdownsOf(team_points, 21, d.recv_td_u, 40)
        tackles == Max(2, TruncDiv(d.tackle_g10, 10))
        sacks_x10 == Max(0, RoundHalfEven(d.sack_u * defense_big_play_factor_pct * 100, 10000))
        forced == IF d.forced_u < defense_big_play_factor_pct THEN 1 ELSE 0
        qbLine == IF qb.present
                  THEN <<[PlayerStatTemplate(qb) EXCEPT !.passing_yards = passing_yards,
                                                       !.passing_tds = passing_tds,
                                                       !.interceptions = interceptions]>>
                  ELSE <<>>
        rbLine == IF rb.present
                  THEN <<[PlayerStatTemplate(rb) EXCEPT !.rushing_yards = rushing_yards,
                                                       !.rushing_tds = rushing_tds]>>
                  ELSE <<>>
        wrLine == IF wr.present
                  THEN <<[PlayerStatTemplate(wr) EXCEPT !.receiving_yards = receiving_yards,
                                                       !.receiving_tds = receiving_tds]>>
                  ELSE <<>>
        defLine == IF defender.present
                   THEN <<[PlayerStatTemplate(defender) EXCEPT !.tackles = tackles,
                                                             !.sacks_x10 = sacks_x10,
                                                             !.forced_turnovers = forced]>>
                   ELSE <<>>
    IN  [players |-> qbLine \o rbLine \o wrLine \o defLine,
         total_yards |-> (IF qb.present THEN passing_yards ELSE 0)
                           + (IF rb.present THEN rushing_yards ELSE 0)
                           + (IF wr.present THEN receiving_yards ELSE 0),
         turnovers |-> turnovers]

\* Bounds of the sampled inputs of the stat generator: gaussian samples of
\* -MaxStatZ, 0 and +MaxStatZ tenths of a standard deviation.
MaxStatZ == 45

StatZ == {-MaxStatZ, 0, MaxStatZ}

StatU == {0, 50, 99}

StatRatings == {20, 60, 99}

StatPoints == {min_score, 27, max_score}

Leader(position, rating) ==
    IF rating < 0 THEN NoPlayer
    ELSE [present |-> TRUE, id |-> 1, team_id |-> 1, position |-> position,
          overall_rating |-> rating]

InitStatCall ==
    statCall \in [qb : StatRatings \cup {-1}, rb : {-1, 20, 99}, wr : {-1, 20, 99},
                  defender : {-1, 60}, team_points : StatPoints,
                  zq : StatZ, zr : StatZ, zw : StatZ, zg : StatZ, u : StatU,
                  done : {FALSE},
                  out : {[players |-> <<>>, total_yards |-> 0, turnovers |-> 0]}]

IdleStatCall == [qb |-> -1, rb |-> -1, wr |-> -1, defender |-> -1, team_points |-> min_score,
                 zq |-> 0, zr |-> 0, zw |-> 0, zg |-> 0, u |-> 0, done |-> TRUE,
                 out |-> [players |-> <<>>, total_yards |-> 0, turnovers |-> 0]]

\* The samples of one call: a gaussian sample is mu + z * sigma.
StatDraws(c) ==
    [turnover_g10 |-> c.zg,
     pass_noise10 |-> c.zq * 35, pass_td_u |-> c.u, int_g10 |-> 5 + TruncDiv(c.zg * 8, 10),
     rush_noise10 |-> c.zr * 20, rush_td_u |-> c.u,
     recv_noise10 |-> c.zw * 25, recv_td_u |-> c.u,
     tackle_g10 |-> 60 + c.zg * 2, sack_u |-> c.u, forced_u |-> c.u]

CallGenerateTeamStats ==
    /\ statCall.done = FALSE
    /\ statCall' = [statCall EXCEPT
                      !.done = TRUE,
                      !.out = TeamStats(Leader("QB", statCall.qb), Leader("RB", statCall.rb),
                                        Leader("WR", statCall.wr), Leader("EDGE", statCall.defender),
                                        statCall.team_points, StatDraws(statCall))]
    /\ UNCHANGED <<scoreCall, logCall, apiVars, auxVars>>

(***************************************************************************)
(* Rosters and trades                                                      *)
(***************************************************************************)
\* GameRules, scaled down to the size of the modelled league.
roster_min == 1

roster_max == 4

salary_cap == 7

max_contract_years == 4

elite_qb_rating == 92

max_elite_qbs == 1

Positions == {"QB", "WR"}

min_position_depth == [p \in Positions |-> IF p = "QB" THEN 1 ELSE 0]

\* Rows of table teams; team ids outside this set do not exist.
Teams == {1, 2}

TeamIds == {1, 2, 3}

\* depth_chart_position is the label f"{position}{order}", kept as the pair
\* <<position, order>>; <<>> is NULL.  team_id, depth_chart_order and
\* free_agent_year use 0 for NULL.
DepthLabel(position, order) == <<position, order>>

SumOver(S, f(_)) ==
    LET RECURSIVE Acc(_)
        Acc(T) == IF T = {} THEN 0
                  ELSE LET x == CHOOSE y \in T : TRUE IN f(x) + Acc(T \ {x})
    IN  Acc(S)

SetMax(S) == CHOOSE x \in S : \A y \in S : y <= x

SetMin(S) == CHOOSE x \in S : \A y \in S : x <= y

\* SELECT COUNT(*) FROM players WHERE team_id = ? AND status = 'active'
ActiveOn(db, team_id) ==
    {id \in DOMAIN db.players :
        db.players[id].team_id = team_id /\ db.players[id].status = "active"}

\* RosterService.roster_size(connection, team_id): the number of active players
\* of the team.
roster_size(db, team_id) == Cardinality(ActiveOn(db, team_id))

\* SELECT COALESCE(SUM(salary), 0) FROM players WHERE team_id = ? AND status = 'active'
cap_total(db, team_id) ==
    LET salaryOf(id) == db.players[id].salary IN SumOver(ActiveOn(db, team_id), salaryOf)

\* RosterService._next_depth_order
NextDepthOrder(db, team_id, position) ==
    LET orders == {db.players[id].depth_chart_order :
                     id \in {i \in DOMAIN db.players :
                               /\ db.players[i].team_id = team_id
                               /\ db.players[i].position = position
                               /\ db.players[i].depth_chart_order /= 0}}
        highest == IF orders = {} THEN 0 ELSE SetMax(orders)
    IN  Max(1, highest + 1)

\* RosterService.validate_depth_requirements: TRUE when no position is short.
DepthOk(db, team_id) ==
    \A p \in Positions :
        Cardinality({id \in ActiveOn(db, team_id) : db.players[id].position = p})
            >= min_position_depth[p]

\* Trade assets as the request carries them.
PlayerAsset(player_id) == [type |-> "player", player_id |-> player_id, year |-> 0, round |-> 0]

PickAsset(year, round) == [type |-> "pick", player_id |-> 0, year |-> year, round |-> round]

\* TradeService._get_team: TRUE when the team row exists.
TeamExists(team_id) == team_id \in Teams

\* TradeService._gather_assets: the rows of the listed assets, in the order
\* listed, or the first error met.  Rows are kept as ids.
RECURSIVE GatherFrom(_, _, _, _, _)
GatherFrom(db, team_id, assets, i, acc) ==
    IF i > Len(assets) THEN acc
    ELSE LET asset == assets[i] IN
         IF asset.type = "player"
         THEN IF /\ asset.player_id \in DOMAIN db.players
                 /\ db.players[asset.player_id].team_id = team_id
              THEN GatherFrom(db, team_id, assets, i + 1,
                              [acc EXCEPT !.players = Append(@, asset.player_id)])
              ELSE [acc EXCEPT !.ok = FALSE, !.code = 404, !.detail = "Player not on team"]
         ELSE LET owned == {id \in DOMAIN db.picks :
                              /\ db.picks[id].team_id = team_id
                              /\ db.picks[id].year = asset.year
                              /\ db.picks[id].round = asset.round}
              IN  IF owned /= {}
                  THEN GatherFrom(db, team_id, assets, i + 1,
                                  [acc EXCEPT !.picks = Append(@, SetMin(owned))])
                  ELSE [acc EXCEPT !.ok = FALSE, !.code = 404,
                                   !.detail = "Team does not own pick"]

GatherAssets(db, team_id, assets) ==
    GatherFrom(db, team_id, assets, 1,
               [ok |-> TRUE, code |-> 200, detail |-> "", players |-> <<>>, picks |-> <<>>])

\* The roster size check left out.
ValidateRosterSizes_Skipped(db, team_a_id, team_b_id, offer_assets, request_assets) == ""

\* TradeService._validate_roster_sizes: "" when the check passes, else the detail.
ValidateRosterSizes(db, team_a_id, team_b_id, offer_assets, request_assets) ==
    LET team_a_total == roster_size(db, team_a_id)
        team_b_total == roster_size(db, team_b_id)
        team_a_after == team_a_total - Len(offer_assets.players) + Len(request_assets.players)
        team_b_after == team_b_total - Len(request_assets.players) + Len(offer_assets.players)
    IN  IF team_a_after > roster_max /\ team_a_after > team_a_total
          THEN "Team A would exceed the roster limit"
        ELSE IF team_b_after > roster_max /\ team_b_after > team_b_total
          THEN "Team B would exceed the roster limit"
        ELSE IF team_a_after < roster_min /\ team_a_after < team_a_total
          THEN "Team A would fall below the roster minimum"
        ELSE IF team_b_after < roster_min /\ team_b_after < team_b_total
          THEN "Team B would fall below the roster minimum"
        ELSE ""

\* sum(player["salary"] for player in assets["players"]): one term per listed row.
SalarySum(db, ids) ==
    LET RECURSIVE Acc(_)
        Acc(i) == IF i > Len(ids) THEN 0 ELSE db.players[ids[i]].salary + Acc(i + 1)
    IN  Acc(1)

\* TradeService._validate_salary_caps: "" when the check passes, else the detail.
ValidateSalaryCaps(db, team_a_id, team_b_id, offer_assets, request_assets) ==
    LET team_a_cap == cap_total(db, team_a_id)
        team_b_cap == cap_total(db, team_b_id)
        team_a_out == SalarySum(db, offer_assets.players)
        team_b_out == SalarySum(db, request_assets.players)
        team_a_in == SalarySum(db, request_assets.players)
        team_b_in == SalarySum(db, offer_assets.players)
    IN  IF (team_a_cap - team_a_out + team_a_in) > salary_cap
          THEN "Team A would exceed salary cap"
        ELSE IF (team_b_cap - team_b_out + team_b_in) > salary_cap
          THEN "Team B would exceed salary cap"
        ELSE ""

\* TradeService._apply_assets: the UPDATEs, one after the other.
RECURSIVE ApplyPlayers(_, _, _, _)
ApplyPlayers(db, ids, i, destination_team_id) ==
    IF i > Len(ids) THEN db
    ELSE LET id == ids[i]
             order == NextDepthOrder(db, destination_team_id, db.players[id].position)
             row == [db.players[id] EXCEPT
                        !.team_id = destination_team_id,
                        !.status = "active",
                        !.depth_chart_order = order,
                        !.depth_chart_position = DepthLabel(db.players[id].position, order),
                        !.free_agent_year = 0]
         IN  ApplyPlayers([db EXCEPT !.players[id] = row], ids, i + 1, destination_team_id)

RECURSIVE ApplyPicks(_, _, _, _)
ApplyPicks(db, ids, i, destination_team_id) ==
    IF i > Len(ids) THEN db
    ELSE ApplyPicks([db EXCEPT !.picks[ids[i]].team_id = destination_team_id],
                    ids, i + 1, destination_team_id)

ApplyAssets(db, assets, destination_team_id) ==
    ApplyPicks(ApplyPlayers(db, assets.players, 1, destination_team_id),
               assets.picks, 1, destination_team_id)

\* TradeService._validate_depth: "" when both teams keep the required depth.
ValidateDepth(db, team_a_id, team_b_id) ==
    IF DepthOk(db, team_a_id) /\ DepthOk(db, team_b_id) THEN ""
    ELSE "Team would fall below required depth"

\* TradeService._validate_elite_qbs: "" when no team holds too many elite QBs.
EliteQbs(db, team_id) ==
    Cardinality({id \in DOMAIN db.players :
                   /\ db.players[id].team_id = team_id
                   /\ db.players[id].position = "QB"
                   /\ db.players[id].overall_rating >= elite_qb_rating})

\* The elite QB check left out.
ValidateEliteQbs_Skipped(db, team_a_id, team_b_id) == ""

ValidateEliteQbs(db, team_a_id, team_b_id) ==
    IF EliteQbs(db, team_a_id) > max_elite_qbs \/ EliteQbs(db, team_b_id) > max_elite_qbs
    THEN "Team would exceed elite QB limit"
    ELSE ""

\* connection.rollback() in the except branch of execute_trade: the connection
\* sees the tables as they were when its transaction began.
Rollback_Skipped(before, after) == after

Rollback(before, after) == before

\* What TradeService.execute_trade does with the connection: the way it ends
\* (status "accepted" when it returns a TradeResult, "rejected" when it raises an
\* HTTPException, "error" when it raises anything else), the validation stage it
\* stopped in, and the tables as the connection sees them afterwards.
TradeOutcome(status, code, detail, stage, db) ==
    [status |-> status, code |-> code, detail |-> detail, stage |-> stage, db |-> db]

execute_trade(db, team_a_id, team_b_id, offer, request) ==
    IF team_a_id = team_b_id
      THEN TradeOutcome("rejected", 400, "Teams must be different for a trade", "teams", db)
    ELSE IF ~TeamExists(team_a_id) \/ ~TeamExists(team_b_id)
      THEN TradeOutcome("rejected", 404, "Team not found", "teams", db)
    ELSE
    LET offer_assets == GatherAssets(db, team_a_id, offer) IN
    IF ~offer_assets.ok
      THEN TradeOutcome("rejected", offer_assets.code, offer_assets.detail, "assets", db)
    ELSE
    LET request_assets == GatherAssets(db, team_b_id, request) IN
    IF ~request_assets.ok
      THEN TradeOutcome("rejected", request_assets.code, request_assets.detail, "assets", db)
    ELSE
    LET sizes == ValidateRosterSizes(db, team_a_id, team_b_id, offer_assets, request_assets) IN
    IF sizes /= ""
      THEN TradeOutcome("rejected", 400, sizes, "roster", db)
    ELSE
    LET caps == ValidateSalaryCaps(db, team_a_id, team_b_id, offer_assets, request_assets) IN
    IF caps /= ""
      THEN TradeOutcome("rejected", 400, caps, "cap", db)
    ELSE
    LET moved == ApplyAssets(ApplyAssets(db, offer_assets, team_b_id), request_assets, team_a_id)
        depth == ValidateDepth(moved, team_a_id, team_b_id)
        elite == ValidateEliteQbs(moved, team_a_id, team_b_id)
    IN  IF depth /= ""
          THEN TradeOutcome("rejected", 400, depth, "depth", Rollback(db, moved))
        ELSE IF elite /= ""
          THEN TradeOutcome("rejected", 400, elite, "elite_qb", Rollback(db, moved))
        \* value_delta = request_value - offer_value: neither name is bound, the
        \* statement raises NameError outside the try block.
        ELSE TradeOutcome("error", 500, "NameError", "result", moved)

\* The lookup of sign_player without its status test.
IsFreeAgent_AnyStatus(db, player_id) == player_id \in DOMAIN db.players

\* SELECT ... FROM players WHERE id = ? AND status = 'free_agent' finds a row.
IsFreeAgent(db, player_id) ==
    player_id \in DOMAIN db.players /\ db.players[player_id].status = "free_agent"

\* The cap test of sign_player left out.
CapExceeded_Never(db, team_id, salary) == FALSE

\* projected_cap > salary_cap in sign_player: the active payroll plus the salary.
CapExceeded(db, team_id, salary) == cap_total(db, team_id) + salary > salary_cap

\* The UPDATE of sign_player with the status column left out.
SignedRow_StatusKept(player, team_id, order) ==
    [player EXCEPT !.team_id = team_id,
                   !.free_agent_year = 0,
                   !.depth_chart_order = order,
                   !.depth_chart_position = DepthLabel(player.position, order),
                   !.contract_years = max_contract_years]

\* The row of the player after the UPDATE of sign_player.
SignedRow(player, team_id, order) ==
    [player EXCEPT !.team_id = team_id,
                   !.status = "active",
                   !.free_agent_year = 0,
                   !.depth_chart_order = order,
                   !.depth_chart_position = DepthLabel(player.position, order),
                   !.contract_years = max_contract_years]

\* RosterService.sign_player followed by validate_depth_requirements, as
\* POST /free-agents/sign runs them: the way the pair ends and the tables as the
\* connection sees them afterwards.
sign_player(db, team_id, player_id) ==
    IF ~TeamExists(team_id)
      THEN TradeOutcome("rejected", 404, "Team not found", "team", db)
    ELSE IF ~IsFreeAgent(db, player_id)
      THEN TradeOutcome("rejected", 404, "Free agent not found", "player", db)
    ELSE IF Cardinality(ActiveOn(db, team_id)) >= roster_max
      THEN TradeOutcome("rejected", 400, "Roster limit reached", "roster", db)
    ELSE IF CapExceeded(db, team_id, db.players[player_id].salary)
      THEN TradeOutcome("rejected", 400, "Signing would exceed salary cap", "cap", db)
    ELSE
    LET order == NextDepthOrder(db, team_id, db.players[player_id].position)
        signed == [db EXCEPT !.players[player_id] = SignedRow(db.players[player_id],
                                                              team_id, order)]
    IN  IF ~DepthOk(signed, team_id)
          THEN TradeOutcome("rejected", 400, "Team would fall below required depth",
                            "depth", signed)
        ELSE TradeOutcome("signed", 200, "", "result", signed)

\* A depth chart slot as the request spells it: the letters and the number
\* behind them; order 0 is a slot without digits, no letters and no digits is
\* the empty string.
Slot(position, order) == [position |-> position, order |-> order]

EmptySlot == Slot("", 0)

\* player_id of an entry that names no player (None).
NoPlayerId == 0

DepthEntry(slot, player_id) == [slot |-> slot, player_id |-> player_id]

\* RosterService._parse_slot: TRUE when _slot_pattern matches, letters followed
\* by digits.
ParseSlotOk(slot) == slot.position /= "" /\ slot.order /= 0

\* The first loop of update_depth_chart from entry i on: "" when it ends without
\* raising, else the stage that raised.  An entry without a player is left
\* after the slot tests, before its slot is parsed.
RECURSIVE CheckEntries(_, _, _, _)
CheckEntries(entries, i, slots_seen, player_ids) ==
    IF i > Len(entries) THEN ""
    ELSE LET slot == entries[i].slot
             player_id == entries[i].player_id
         IN  IF slot = EmptySlot THEN "slot_missing"
             ELSE IF slot \in slots_seen THEN "slot"
             ELSE IF player_id = NoPlayerId
               THEN CheckEntries(entries, i + 1, slots_seen \cup {slot}, player_ids)
             ELSE IF player_id \in player_ids THEN "player"
             ELSE IF ~ParseSlotOk(slot) THEN "format"
             ELSE CheckEntries(entries, i + 1, slots_seen \cup {slot},
                               player_ids \cup {player_id})

\* UPDATE players SET depth_chart_position = NULL, depth_chart_order = NULL
\* WHERE team_id = ?
ClearDepthChart(db, team_id) ==
    [db EXCEPT !.players =
        [id \in DOMAIN db.players |->
            IF db.players[id].team_id = team_id
              THEN [db.players[id] EXCEPT !.depth_chart_position = <<>>,
                                          !.depth_chart_order = 0]
              ELSE db.players[id]]]

\* The second loop of update_depth_chart from entry i on: the tables after the
\* assignments and whether every named player was found on the team; the loop
\* stops at the first player it does not find.
RECURSIVE AssignEntries(_, _, _, _)
AssignEntries(db, team_id, entries, i) ==
    IF i > Len(entries) THEN [found |-> TRUE, db |-> db]
    ELSE LET slot == entries[i].slot
             player_id == entries[i].player_id
         IN  IF player_id = NoPlayerId THEN AssignEntries(db, team_id, entries, i + 1)
             ELSE IF ~(player_id \in DOMAIN db.players
                       /\ db.players[player_id].team_id = team_id)
               THEN [found |-> FALSE, db |-> db]
             ELSE AssignEntries(
                      [db EXCEPT !.players[player_id] =
                          [@ EXCEPT !.depth_chart_position = DepthLabel(slot.position, slot.order),
                                    !.depth_chart_order = slot.order,
                                    !.status = "active"]],
                      team_id, entries, i + 1)

\* RosterService.update_depth_chart: the way the call ends and the tables as the
\* connection sees them afterwards.
update_depth_chart(db, team_id, entries) ==
    LET first == CheckEntries(entries, 1, {}, {})
    IN  IF first = "slot_missing"
          THEN TradeOutcome("rejected", 400, "Depth chart entry missing slot", first, db)
        ELSE IF first = "slot"
          THEN TradeOutcome("rejected", 400, "Duplicate slot assignment", first, db)
        ELSE IF first = "player"
          THEN TradeOutcome("rejected", 400, "Player assigned to multiple slots", first, db)
        ELSE IF first = "format"
          THEN TradeOutcome("rejected", 400, "Invalid depth chart slot", first, db)
        ELSE
        LET second == AssignEntries(ClearDepthChart(db, team_id), team_id, entries, 1)
        IN  IF ~second.found
              THEN TradeOutcome("rejected", 404, "Player not found on team", "lookup", second.db)
            ELSE IF ~DepthOk(second.db, team_id)
              THEN TradeOutcome("rejected", 400, "Team would fall below required depth",
                                "depth", second.db)
            ELSE TradeOutcome("updated", 200, "", "result", second.db)

\* The league the model starts from: rows as load_data seeds them (rostered
\* players active with a depth slot, free agents without a team).
PlayerRow(team_id, status, position, overall_rating, salary, order, free_agent_year) ==
    [team_id |-> team_id, status |-> status, position |-> position,
     overall_rating |-> overall_rating, salary |-> salary,
     depth_chart_order |-> order,
     depth_chart_position |-> IF order = 0 THEN <<>> ELSE DepthLabel(position, order),
     free_agent_year |-> free_agent_year, contract_years |-> 2,
     injury_status |-> "healthy"]

InitialPlayers ==
    <<PlayerRow(1, "active", "QB", 95, 3, 1, 0),
      PlayerRow(1, "active", "WR", 80, 3, 1, 0),
      PlayerRow(2, "active", "QB", 93, 3, 1, 0),
      PlayerRow(2, "active", "QB", 70, 1, 2, 0),
      PlayerRow(0, "free_agent", "WR", 75, 2, 0, 2025)>>

\* The leagues roster requests are run against: the league above with two more
\* free agents, the same with a quarterback of elite rating among the free agents,
\* and the league with a wide receiver in place of team 1's quarterback, which
\* leaves team 1 short of its minimum depth.
RosterLeagues ==
    {InitialPlayers \o <<PlayerRow(0, "free_agent", "WR", 60, 1, 0, 2025),
                          PlayerRow(0, "free_agent", "QB", 65, 1, 0, 2025)>>,
     InitialPlayers \o <<PlayerRow(0, "free_agent", "WR", 60, 1, 0, 2025),
                          PlayerRow(0, "free_agent", "QB", 94, 1, 0, 2025)>>,
     <<PlayerRow(1, "active", "WR", 85, 3, 2, 0)>> \o Tail(InitialPlayers)
        \o <<PlayerRow(0, "free_agent", "WR", 60, 1, 0, 2025),
              PlayerRow(0, "free_agent", "QB", 65, 1, 0, 2025)>>}

\* The players load_data seeds as free agents.
FreeAgents == {id \in DOMAIN InitialPlayers : InitialPlayers[id].status = "free_agent"}

InitialPicks ==
    <<[team_id |-> 1, year |-> 2025, round |-> 1],
      [team_id |-> 2, year |-> 2025, round |-> 2]>>

\* The requests the model submits: lists of at most MaxAssets assets.
MaxAssets == 2

\* The assets a request may list: the rostered players and team 1's pick.
TradeAssets == {PlayerAsset(id) : id \in {1, 2, 3, 4}} \cup {PickAsset(2025, 1)}

AssetLists == UNION {[1..n -> TradeAssets] : n \in 0..MaxAssets}

\* The payload of a roster request: the team, the player (signing) and the
\* entries (depth chart); 0 and <<>> where the request has none.
RosterInput(team_id, player_id, entries) ==
    [team_id |-> team_id, player_id |-> player_id, entries |-> entries]

NoInput == RosterInput(0, 0, <<>>)

IdleLast ==
    [op |-> "none", status |-> "", code |-> 0, detail |-> "", stage |-> "", week |-> 0,
     players |-> InitialPlayers, picks |-> InitialPicks, input |-> NoInput]

IdleTradeReq ==
    [endpoint |-> "execute", team_a |-> 1, team_b |-> 2, offer |-> <<>>, request |-> <<>>,
     done |-> TRUE]

InitTradeReq ==
    tradeReq \in [endpoint : {"execute", "propose"}, team_a : TeamIds, team_b : TeamIds,
                  offer : AssetLists, request : AssetLists, done : {FALSE}]

\* POST /trades/execute: commit only when the service returns; any exception
\* leaves the with-block before the commit and the connection is closed.
ExecuteTrade ==
    /\ ~tradeReq.done
    /\ tradeReq.endpoint = "execute"
    /\ LET before == [players |-> players, picks |-> picks]
           r == execute_trade(before, tradeReq.team_a, tradeReq.team_b,
                              tradeReq.offer, tradeReq.request)
       IN  /\ players' = IF r.status = "accepted" THEN r.db.players ELSE players
           /\ picks' = IF r.status = "accepted" THEN r.db.picks ELSE picks
           /\ last' = [op |-> tradeReq.endpoint, status |-> r.status, code |-> r.code,
                       detail |-> r.detail, stage |-> r.stage, week |-> 0,
                       players |-> r.db.players, picks |-> r.db.picks, input |-> NoInput]
    /\ tradeReq' = [tradeReq EXCEPT !.done = TRUE]
    /\ UNCHANGED <<callVars, weekVars, auxVars>>

\* POST /trades/propose: the same service call, rolled back whatever it returns;
\* only an HTTPException is turned into a "rejected" response.
ProposeTrade ==
    /\ ~tradeReq.done
    /\ tradeReq.endpoint = "propose"
    /\ LET before == [players |-> players, picks |-> picks]
           r == execute_trade(before, tradeReq.team_a, tradeReq.team_b,
                              tradeReq.offer, tradeReq.request)
       IN  last' = [op |-> tradeReq.endpoint, status |-> r.status, code |-> r.code,
                    detail |-> r.detail, stage |-> r.stage, week |-> 0,
                    players |-> Rollback(before, r.db).players,
                    picks |-> Rollback(before, r.db).picks, input |-> NoInput]
    /\ tradeReq' = [tradeReq EXCEPT !.done = TRUE]
    /\ UNCHANGED <<callVars, weekVars, players, picks, auxVars>>

\* POST /free-agents/sign
SignFreeAgent(team_id, player_id) ==
    /\ LET before == [players |-> players, picks |-> picks]
           r == sign_player(before, team_id, player_id)
       IN  /\ players' = IF r.status = "signed" THEN r.db.players ELSE players
           /\ last' = [op |-> "sign", status |-> r.status, code |-> r.code,
                       detail |-> r.detail, stage |-> r.stage, week |-> 0,
                       players |-> r.db.players, picks |-> r.db.picks,
                       input |-> RosterInput(team_id, player_id, <<>>)]
    /\ UNCHANGED <<callVars, weekVars, picks, tradeReq, auxVars>>

\* POST /teams/{team_id}/depth-chart: committed when the service returns.
UpdateDepthChart(team_id, entries) ==
    /\ LET before == [players |-> players, picks |-> picks]
           r == update_depth_chart(before, team_id, entries)
       IN  /\ players' = IF r.status = "updated" THEN r.db.players ELSE players
           /\ last' = [op |-> "depth", status |-> r.status, code |-> r.code,
                       detail |-> r.detail, stage |-> r.stage, week |-> 0,
                       players |-> r.db.players, picks |-> r.db.picks,
                       input |-> RosterInput(team_id, 0, entries)]
    /\ UNCHANGED <<callVars, weekVars, picks, tradeReq, auxVars>>

(***************************************************************************)
(* Week simulation                                                         *)
(***************************************************************************)
injury_probability_pct == 7

\* rng.gauss(mu, sigma): the sample's distance from mu in tenths of sigma, one
\* value per level of the raw draw, symmetric around 0.
ZStep == 5

GaussZ(rng) == (2 * Raw(rng) - (RngLevels - 1)) * ZStep

\* random_variance = 7.5 points: a tenth of sigma is 7500 ten-thousandths.
ScoreGauss(rng) == GaussZ(rng) * 7500

\* _generate_scores on the game's generator: two gauss samples, and one
\* random() when the clamped scores tie.
GenerateScoresRng(rng, home_rating, away_rating) ==
    LET r1 == Advance(rng)
        r2 == Advance(r1)
        out == GenerateScores(home_rating, away_rating, ScoreGauss(rng), ScoreGauss(r1),
                              Random100(r2) > 50)
    IN  [home |-> out.home, away |-> out.away, rng |-> IF out.tied THEN Advance(r2) ELSE r2]

\* _team_rating: AVG(overall_rating) of the active players in hundredths, 60.0
\* for a team without active players.
TeamRating(db, team_id) ==
    LET active == ActiveOn(db, team_id)
        ratingOf(id) == db.players[id].overall_rating
    IN  IF active = {} THEN 6000
        ELSE (100 * SumOver(active, ratingOf)) \div Cardinality(active)

\* _depth_chart_player: the active player of the position with the lowest
\* COALESCE(depth_chart_order, 999); among equals the lowest id.
DepthChartPlayer(db, team_id, position) ==
    LET pool == {id \in ActiveOn(db, team_id) : db.players[id].position = position}
        key(id) == IF db.players[id].depth_chart_order = 0 THEN 999
                   ELSE db.players[id].depth_chart_order
        best == SetMin({id \in pool : \A o \in pool : key(id) <= key(o)})
    IN  IF pool = {} THEN NoPlayer
        ELSE [present |-> TRUE, id |-> best, team_id |-> team_id, position |-> position,
              overall_rating |-> db.players[best].overall_rating]

FirstPresent(a, b) == IF a.present THEN a ELSE b

\* The four leaders _generate_team_stats looks up, with their fallbacks.
Leaders(db, team_id) ==
    [qb |-> DepthChartPlayer(db, team_id, "QB"),
     rb |-> FirstPresent(DepthChartPlayer(db, team_id, "RB"),
                         DepthChartPlayer(db, team_id, "WR")),
     wr |-> FirstPresent(DepthChartPlayer(db, team_id, "WR"),
                         DepthChartPlayer(db, team_id, "TE")),
     defender |-> FirstPresent(DepthChartPlayer(db, team_id, "EDGE"),
                               FirstPresent(DepthChartPlayer(db, team_id, "LB"),
                                            DepthChartPlayer(db, team_id, "CB")))]

\* The rng position n draws further on.
Skip(rng, n) == [rng EXCEPT !.pos = rng.pos + n]

\* The samples _generate_team_stats draws, in the order it draws them; a block is
\* drawn only when its player exists.
DrawStats(rng, l) ==
    LET qbAt == Skip(rng, 1)
        rbAt == Skip(qbAt, IF l.qb.present THEN 3 ELSE 0)
        wrAt == Skip(rbAt, IF l.rb.present THEN 2 ELSE 0)
        defAt == Skip(wrAt, IF l.wr.present THEN 2 ELSE 0)
        endAt == Skip(defAt, IF l.defender.present THEN 3 ELSE 0)
    IN  [d |-> [turnover_g10 |-> GaussZ(rng),
                pass_noise10 |-> GaussZ(qbAt) * 35,
                pass_td_u |-> Random100(Skip(qbAt, 1)),
                int_g10 |-> 5 + TruncDiv(GaussZ(Skip(qbAt, 2)) * 8, 10),
                rush_noise10 |-> GaussZ(rbAt) * 20,
                rush_td_u |-> Random100(Skip(rbAt, 1)),
                recv_noise10 |-> GaussZ(wrAt) * 25,
                recv_td_u |-> Random100(Skip(wrAt, 1)),
                tackle_g10 |-> 60 + GaussZ(defAt) * 2,
                sack_u |-> Random100(Skip(defAt, 1)),
                forced_u |-> Random100(Skip(defAt, 2))],
         rng |-> endAt]

\* _apply_injuries that leaves the status of an unhurt candidate as it was.
RECURSIVE ApplyInjuriesWith_NoReset(_, _, _, _, _, _)
ApplyInjuriesWith_NoReset(injury_probability, db, rng, candidates, i, injuries) ==
    IF i > Len(candidates) THEN [db |-> db, rng |-> rng, injuries |-> injuries]
    ELSE IF ~candidates[i].present
      THEN ApplyInjuriesWith_NoReset(injury_probability, db, rng, candidates, i + 1, injuries)
    ELSE LET id == candidates[i].id
             hurt == Random100(rng) < injury_probability
         IN  ApplyInjuriesWith_NoReset(
                 injury_probability,
                 IF hurt THEN [db EXCEPT !.players[id].injury_status = "questionable"] ELSE db,
                 Advance(rng), candidates, i + 1,
                 IF hurt THEN Append(injuries, id) ELSE injuries)

\* _apply_injuries(connection, rng, candidates) of a service whose rules hold
\* injury_probability (in hundredths): one random() per candidate that exists; the
\* injury_status UPDATEs in order and the injuries reported.
RECURSIVE ApplyInjuriesWith(_, _, _, _, _, _)
ApplyInjuriesWith(injury_probability, db, rng, candidates, i, injuries) ==
    IF i > Len(candidates) THEN [db |-> db, rng |-> rng, injuries |-> injuries]
    ELSE IF ~candidates[i].present
      THEN ApplyInjuriesWith(injury_probability, db, rng, candidates, i + 1, injuries)
    ELSE LET id == candidates[i].id
             hurt == Random100(rng) < injury_probability
         IN  ApplyInjuriesWith(
                 injury_probability,
                 [db EXCEPT !.players[id].injury_status =
                                IF hurt THEN "questionable" ELSE "healthy"],
                 Advance(rng), candidates, i + 1,
                 IF hurt THEN Append(injuries, id) ELSE injuries)

\* _apply_injuries of the service the application builds from the loaded rules.
ApplyInjuries(db, rng, candidates, i, injuries) ==
    ApplyInjuriesWith(injury_probability_pct, db, rng, candidates, i, injuries)

\* The dict _generate_team_stats returns, with the tables and the generator as
\* the call leaves them.
TeamStatsResult(team_id, stats, hurt) ==
    [team_id |-> team_id, players |-> stats.players, total_yards |-> stats.total_yards,
     turnovers |-> stats.turnovers, injuries |-> hurt.injuries,
     db |-> hurt.db, rng |-> hurt.rng]

\* _generate_team_stats once the samples are drawn: the stat lines, then the
\* injury rolls of the four leaders.
TeamStatsDrawn(db, team_id, team_points, l, drawn) ==
    TeamStatsResult(team_id,
                    TeamStats(l.qb, l.rb, l.wr, l.defender, team_points, drawn.d),
                    ApplyInjuries(db, drawn.rng, <<l.qb, l.rb, l.wr, l.defender>>, 1, <<>>))

\* _generate_team_stats once the leaders are looked up.
TeamStatsOf(db, rng, team_id, team_points, l) ==
    TeamStatsDrawn(db, team_id, team_points, l, DrawStats(rng, l))

\* _generate_team_stats(connection, rng, team, team_points, opponent_points)
GenerateTeamStats(db, rng, team_id, team_points) ==
    TeamStatsOf(db, rng, team_id, team_points, Leaders(db, team_id))

\* seed = (week << 20) ^ (home_team_id << 10) ^ away_team_id
GameSeed(game) == game.week * 1048576 + game.home_team_id * 1024 + game.away_team_id

\* random.Random(seed): the stream depends on the seed alone.
SeededRng(table, seed) == [tab |-> table, pos |-> seed % Len(table)]

\* The stored form of a play (_persist_play_log).
EventRow(play) ==
    [sequence |-> play.sequence, quarter |-> play.quarter, clock |-> play.clock,
     team |-> play.team, highlight_type |-> play.type, impact |-> play.impact,
     points |-> play.points, home_score_after |-> play.score.home,
     away_score_after |-> play.score.away]

MapSeq(f(_), seq) == [i \in DOMAIN seq |-> f(seq[i])]

TeamStatRow(st) ==
    [team_id |-> st.team_id, total_yards |-> st.total_yards, turnovers |-> st.turnovers]

\* The end of _simulate_game: the stat rows and the plays are inserted, the box
\* score is returned.
GameResult(game_id, scores, home_stats, away_stats, plays) ==
    [db |-> [away_stats.db EXCEPT
                !.statRows[game_id] =
                    [teams |-> <<TeamStatRow(home_stats), TeamStatRow(away_stats)>>,
                     players |-> home_stats.players \o away_stats.players],
                !.events[game_id] = MapSeq(EventRow, plays)],
     box |-> [game_id |-> game_id, home_score |-> scores.home, away_score |-> scores.away,
              players |-> home_stats.players \o away_stats.players,
              injuries |-> home_stats.injuries \o away_stats.injuries,
              plays |-> plays]]

\* _simulate_game with the play log generated in either mode.
GameWithStats_AlwaysLogged(game_id, detailed, scores, home_stats, away_stats) ==
    GameResult(game_id, scores, home_stats, away_stats,
               GeneratePlayLog(away_stats.rng, scores.home, scores.away).val)

\* _simulate_game after both teams' stats: the play log in detailed mode.
GameWithStats(game_id, detailed, scores, home_stats, away_stats) ==
    GameResult(game_id, scores, home_stats, away_stats,
               IF detailed
               THEN GeneratePlayLog(away_stats.rng, scores.home, scores.away).val
               ELSE <<>>)

\* _simulate_game after the home team's stats: the away team's stats.
GameWithHomeStats(game_id, detailed, scores, home_stats) ==
    GameWithStats(game_id, detailed, scores, home_stats,
                  GenerateTeamStats(home_stats.db, home_stats.rng,
                                    home_stats.db.games[game_id].away_team_id, scores.away))

\* _simulate_game once the scores are drawn: UPDATE games, then the home stats.
GameWithScores(db, game_id, detailed, played_at, scores) ==
    GameWithHomeStats(game_id, detailed, scores,
        GenerateTeamStats(
            [db EXCEPT !.games[game_id].home_score = scores.home,
                       !.games[game_id].away_score = scores.away,
                       !.games[game_id].played_at = played_at],
            scores.rng, db.games[game_id].home_team_id, scores.home))

\* _simulate_game with a generator seeded from the clock as well.
SimulateGame_ClockSeeded(db, game_id, detailed, played_at) ==
    GameWithScores(db, game_id, detailed, played_at,
        GenerateScoresRng(SeededRng(db.rngTab, GameSeed(db.games[game_id]) + played_at),
                          TeamRating(db, db.games[game_id].home_team_id),
                          TeamRating(db, db.games[game_id].away_team_id)))

\* _simulate_game(connection, game_row, detailed): the tables as the connection
\* sees them afterwards and the box score.
SimulateGame(db, game_id, detailed, played_at) ==
    GameWithScores(db, game_id, detailed, played_at,
        GenerateScoresRng(SeededRng(db.rngTab, GameSeed(db.games[game_id])),
                          TeamRating(db, db.games[game_id].home_team_id),
                          TeamRating(db, db.games[game_id].away_team_id)))

\* NarrativeService._margin
Margin(box) == Abs(box.home_score - box.away_score)

\* The score _find_star_performance weighs a stat line by, times ten.
Weighted10(line) ==
    10 * line.passing_yards + 12 * line.rushing_yards + 10 * line.receiving_yards
        + 50 * line.tackles + 20 * line.sacks_x10 + 300 * line.forced_turnovers

\* Index of the first element of a non-empty sequence whose key is extreme.
FirstWith(seq, key(_), best) == SetMin({i \in DOMAIN seq : key(seq[i]) = best})

\* NarrativeService._build_narratives: the kind and the game of each story.
BuildNarratives(boxes) ==
    IF boxes = <<>> THEN <<>>
    ELSE
    LET margins == {Margin(boxes[i]) : i \in DOMAIN boxes}
        blowout == boxes[FirstWith(boxes, Margin, SetMax(margins))]
        thriller == boxes[FirstWith(boxes, Margin, SetMin(margins))]
        lines == {<<i, j>> \in (DOMAIN boxes) \X (1..8) : j \in DOMAIN boxes[i].players}
        best == SetMax({0} \cup {Weighted10(boxes[i[1]].players[i[2]]) : i \in lines})
        starBox == SetMin({i[1] : i \in {k \in lines :
                                  Weighted10(boxes[k[1]].players[k[2]]) = best}})
        hurt == {i \in DOMAIN boxes : boxes[i].injuries /= <<>>}
        story(kind, box) == [kind |-> kind, game_id |-> box.game_id]
        all == (IF Margin(blowout) >= 14 THEN <<story("blowout", blowout)>> ELSE <<>>)
                 \o (IF Margin(thriller) <= 3 THEN <<story("thriller", thriller)>> ELSE <<>>)
                 \o (IF best >= 1500 THEN <<story("star", boxes[starBox])>> ELSE <<>>)
                 \o (IF hurt /= {} THEN <<story("injury", boxes[SetMin(hurt)])>> ELSE <<>>)
    IN  SubSeq(all, 1, Min(4, Len(all)))

\* NarrativeService.record_week: replace the week's rows.
RecordWeek(db, week, boxes, timestamp) ==
    [db EXCEPT !.narratives[week] =
        [created_at |-> timestamp, stories |-> BuildNarratives(boxes)]]

\* "if game['played_at']" in simulate_week.
AlreadyPlayed_Never(game) == FALSE

AlreadyPlayed(game) == game.played_at /= 0

\* The ids of the week's games in id order (SELECT ... WHERE week = ? ORDER BY id).
RECURSIVE Ascending(_)
Ascending(S) == IF S = {} THEN <<>> ELSE <<SetMin(S)>> \o Ascending(S \ {SetMin(S)})

WeekGames(db, week) == Ascending({g \in DOMAIN db.games : db.games[g].week = week})

\* The loop of simulate_week over the week's games.
RECURSIVE SimulateGames(_, _, _, _, _, _)
\* The loop goes on with the next game after game i is simulated (r).
NextGame(ids, i, detailed, played_at, boxes, r) ==
    SimulateGames(r.db, ids, i + 1, detailed, played_at, Append(boxes, r.box))

SimulateGames(db, ids, i, detailed, played_at, boxes) ==
    IF i > Len(ids)
      THEN [status |-> "ok", code |-> 200, detail |-> "", db |-> db, boxes |-> boxes]
    ELSE IF AlreadyPlayed(db.games[ids[i]])
      THEN [status |-> "rejected", code |-> 400, detail |-> "Game already simulated",
            db |-> db, boxes |-> boxes]
    ELSE IF ~TeamExists(db.games[ids[i]].home_team_id)
              \/ ~TeamExists(db.games[ids[i]].away_team_id)
      THEN [status |-> "rejected", code |-> 404, detail |-> "Team not found",
            db |-> db, boxes |-> boxes]
    ELSE NextGame(ids, i, detailed, played_at, boxes,
                  SimulateGame(db, ids[i], detailed, played_at))

\* SimulationService.simulate_week(connection, week, detailed)
simulate_week(db, week, detailed, played_at) ==
    LET ids == WeekGames(db, week)
    IN  IF ids = <<>>
          THEN [status |-> "rejected", code |-> 404,
                detail |-> "No games scheduled for this week", db |-> db, boxes |-> <<>>]
        ELSE SimulateGames(db, ids, 1, detailed, played_at, <<>>)

\* The schedule the model starts from: no game played yet.
GameRow(week, home_team_id, away_team_id) ==
    [week |-> week, home_team_id |-> home_team_id, away_team_id |-> away_team_id,
     home_score |-> 0, away_score |-> 0, played_at |-> 0]

InitialGames == <<GameRow(1, 1, 2), GameRow(1, 2, 1), GameRow(2, 2, 1)>>

NoStats == [g \in DOMAIN InitialGames |-> [teams |-> <<>>, players |-> <<>>]]

NoEvents == [g \in DOMAIN InitialGames |-> <<>>]

\* Weeks a request may name: the scheduled ones and one past the schedule.
MaxWeek == 3

NoNarratives == [w \in 1..MaxWeek |-> [created_at |-> 0, stories |-> <<>>]]

\* The wall clock stops at MaxNow.
MaxNow == 2

\* The tables the request's connection reads.
Tables ==
    [players |-> players, picks |-> picks, games |-> games, statRows |-> statRows,
     events |-> events, narratives |-> narratives, rngTab |-> rngTab]

\* The end of POST /simulate-week: the connection's tables are committed after a
\* successful run (after), the response is sent (r).
WeekResponse(week, detailed, r, after) ==
    /\ players' = after.players
    /\ games' = after.games
    /\ statRows' = after.statRows
    /\ events' = after.events
    /\ narratives' = after.narratives
    /\ last' = [op |-> "simulate", status |-> r.status, code |-> r.code,
                detail |-> r.detail, stage |-> IF detailed THEN "detailed" ELSE "quick",
                week |-> week, players |-> r.db.players, picks |-> picks, input |-> NoInput]

\* POST /simulate-week on a connection that writes every statement through: what
\* a rejected run wrote stays.
WeekSimulated_Autocommit(week, detailed, r) ==
    WeekResponse(week, detailed, r,
                 IF r.status = "ok" THEN RecordWeek(r.db, week, r.boxes, now) ELSE r.db)

\* POST /simulate-week after simulate_week: record the narratives and commit; an
\* exception leaves the with-block before the commit.
WeekSimulated(week, detailed, r) ==
    WeekResponse(week, detailed, r,
                 IF r.status = "ok" THEN RecordWeek(r.db, week, r.boxes, now) ELSE Tables)

\* POST /simulate-week
SimulateWeek(week, detailed) ==
    /\ WeekSimulated(week, detailed, simulate_week(Tables, week, detailed, now))
    /\ UNCHANGED <<callVars, picks, tradeReq, rngTab, now, auxVars>>

\* The tables after one game was simulated on its own (r) are committed.
GameCommitted(game_id, detailed, r) ==
    /\ players' = r.db.players
    /\ games' = r.db.games
    /\ statRows' = r.db.statRows
    /\ events' = r.db.events
    /\ last' = [op |-> "game", status |-> "ok", code |-> 200, detail |-> "",
                stage |-> IF detailed THEN "detailed" ELSE "quick",
                week |-> games[game_id].week, players |-> r.db.players, picks |-> picks,
                input |-> NoInput]

\* SimulationService._simulate_game called for one unplayed game and committed, as
\* the service's callers outside POST /simulate-week do.
SimulateGameAlone(game_id, detailed) ==
    /\ ~AlreadyPlayed(games[game_id])
    /\ GameCommitted(game_id, detailed, SimulateGame(Tables, game_id, detailed, now))
    /\ UNCHANGED <<callVars, picks, tradeReq, narratives, rngTab, now, auxVars>>

\* Time passes between requests.
Tick ==
    /\ now < MaxNow
    /\ now' = now + 1
    /\ UNCHANGED <<callVars, players, picks, tradeReq, games, events, statRows, narratives,
                   rngTab, last, auxVars>>

(***************************************************************************)
(* Requests and databases side by side                                     *)
(***************************************************************************)
\* The two requests that run at the same time, each on a connection of its own.
Requests == {1, 2}

\* The weeks the two requests may name.
ConcWeeks == {1, 2}

\* A request before it is received.  seen is the result of the SELECT of
\* simulate_week, view the tables as the request's connection sees them after
\* its writes.
IdleReq ==
    [pc |-> "idle", week |-> 0, detailed |-> FALSE, seen |-> InitialGames, view |-> <<>>,
     status |-> ""]

\* writes[g]: the requests whose result for game g has been committed, in order.
IdleConc ==
    [req |-> [r \in Requests |-> IdleReq], writes |-> [g \in DOMAIN InitialGames |-> <<>>]]

\* The request that holds SQLite's write lock: it has written and not committed.
Writer == {r \in Requests : conc.req[r].pc = "wrote"}

\* simulate_week as request r runs it: the played_at test reads the rows fetched
\* at the start of the call, everything else reads the database as it is now.
ConcOutcome(r) ==
    simulate_week([Tables EXCEPT !.games = conc.req[r].seen], conc.req[r].week,
                  conc.req[r].detailed, now)

\* The response of request r.
ConcLast(r, status, code, detail) ==
    [op |-> "simulate", status |-> status, code |-> code, detail |-> detail,
     stage |-> IF conc.req[r].detailed THEN "detailed" ELSE "quick",
     week |-> conc.req[r].week, players |-> players, picks |-> picks, input |-> NoInput]

\* POST /simulate-week, first step: the SELECT of the week's games (fetchall).
ConcRead(r, week, detailed) ==
    /\ conc.req[r].pc = "idle"
    /\ conc' = [conc EXCEPT !.req[r] = [IdleReq EXCEPT !.pc = "read", !.week = week,
                                                       !.detailed = detailed,
                                                       !.seen = games]]
    /\ UNCHANGED <<callVars, apiVars, breakCall, twin, unitVars>>

\* Second step, the call fails: no game of the week, or a fetched row with
\* played_at set.  The exception leaves the with-block before the commit.
ConcReject(r, out) ==
    /\ conc.req[r].pc = "read"
    /\ out.status /= "ok"
    /\ out.db.games = conc.req[r].seen \/ Writer \subseteq {r}
    /\ conc' = [conc EXCEPT !.req[r].pc = "done", !.req[r].status = out.status]
    /\ last' = ConcLast(r, out.status, out.code, out.detail)
    /\ UNCHANGED <<callVars, players, picks, tradeReq, weekVars, breakCall, twin, unitVars>>

\* Second step, the call succeeds: every game of the week is simulated and the
\* narratives are recorded in the connection's transaction, which takes the
\* write lock with its first UPDATE.
ConcSimulate(r, out) ==
    /\ conc.req[r].pc = "read"
    /\ out.status = "ok"
    /\ Writer = {}
    /\ conc' = [conc EXCEPT !.req[r].pc = "wrote",
                            !.req[r].view = RecordWeek(out.db, conc.req[r].week,
                                                       out.boxes, now)]
    /\ UNCHANGED <<callVars, apiVars, breakCall, twin, unitVars>>

\* Second step while the other request holds the write lock until the busy
\* timeout of sqlite3.connect (5 s) runs out: OperationalError, no write.
ConcBusy(r, out) ==
    /\ conc.req[r].pc = "read"
    /\ out.db.games /= conc.req[r].seen
    /\ Writer \ {r} /= {}
    /\ conc' = [conc EXCEPT !.req[r].pc = "done", !.req[r].status = "error"]
    /\ last' = ConcLast(r, "error", 500, "database is locked")
    /\ UNCHANGED <<callVars, players, picks, tradeReq, weekVars, breakCall, twin, unitVars>>

\* The rows of table games after the commit of a view: the rows the request has
\* updated are those of its week.
CommittedGames(view, week) ==
    [g \in DOMAIN games |-> IF games[g].week = week THEN view.games[g] ELSE games[g]]

\* The requests whose result for each game is committed, after request r commits.
WritesAfter(r) ==
    [g \in DOMAIN conc.writes |->
        IF games[g].week = conc.req[r].week THEN Append(conc.writes[g], r)
        ELSE conc.writes[g]]

\* Third step: connection.commit() and the response.
ConcCommit(r) ==
    /\ conc.req[r].pc = "wrote"
    /\ games' = CommittedGames(conc.req[r].view, conc.req[r].week)
    /\ players' = conc.req[r].view.players
    /\ statRows' = conc.req[r].view.statRows
    /\ events' = conc.req[r].view.events
    /\ narratives' = conc.req[r].view.narratives
    /\ conc' = [conc EXCEPT !.req[r].pc = "done", !.req[r].status = "ok",
                            !.req[r].view = <<>>, !.writes = WritesAfter(r)]
    /\ last' = [ConcLast(r, "ok", 200, "") EXCEPT !.players = conc.req[r].view.players]
    /\ UNCHANGED <<callVars, picks, tradeReq, rngTab, now, breakCall, twin, unitVars>>

\* One game simulated in two databases that hold the same rosters (the two
\* fresh databases of test_simulate_game_is_deterministic_with_seed): what a
\* simulation leaves behind.
IdleSide ==
    [done |-> FALSE, detailed |-> FALSE, played_at |-> 0, home_score |-> 0, away_score |-> 0,
     teams |-> <<>>, players |-> <<>>, injuries |-> <<>>, injury_status |-> <<>>,
     plays |-> <<>>, events |-> <<>>]

Sides == {"a", "b"}

IdleTwin == [roster |-> InitialPlayers, game |-> 1, a |-> IdleSide, b |-> IdleSide]

\* The roster states the two databases are loaded with: the seeded league, and
\* the league after team 2 has signed the free agent.
TwinRosters ==
    {InitialPlayers,
     sign_player([players |-> InitialPlayers, picks |-> InitialPicks], 2, 5).db.players}

\* What _simulate_game returns and writes for the game: the scores, the team
\* stat rows, the player lines, the injuries reported (player ids), every
\* player's injury_status, the plays returned and the game_events rows of the
\* game.
SideOf(game_id, detailed, played_at, r) ==
    [done |-> TRUE, detailed |-> detailed, played_at |-> played_at,
     home_score |-> r.box.home_score, away_score |-> r.box.away_score,
     teams |-> r.db.statRows[game_id].teams, players |-> r.box.players,
     injuries |-> r.box.injuries,
     injury_status |-> [id \in DOMAIN r.db.players |-> r.db.players[id].injury_status],
     plays |-> r.box.plays, events |-> r.db.events[game_id]]

\* _simulate_game on one of the two databases, in either mode and at any time.
TwinSimulate(side, detailed, played_at) ==
    /\ ~twin[side].done
    /\ twin' = [twin EXCEPT ![side] =
                    SideOf(twin.game, detailed, played_at,
                           SimulateGame([Tables EXCEPT !.players = twin.roster],
                                        twin.game, detailed, played_at))]
    /\ UNCHANGED <<callVars, apiVars, weekVars, breakCall, conc, unitVars>>

(***************************************************************************)
(* Specifications                                                          *)
(***************************************************************************)
\* The database as seeded and no request handled yet.
SeededTables ==
    /\ players = InitialPlayers
    /\ picks = InitialPicks
    /\ games = InitialGames
    /\ events = NoEvents
    /\ statRows = NoStats
    /\ narratives = NoNarratives
    /\ now = 1
    /\ last = IdleLast

\* Largest score a call of _impact_label is given.
MaxLabelScore == 4

LabelScores == 0..MaxLabelScore

IdleLabelCall == [home_before |-> 0, away_before |-> 0, home_after |-> 0, away_after |-> 0,
                  scoring_team |-> "home", done |-> TRUE, out |-> ""]

\* Any call _impact_label(home_before, away_before, home_after, away_after, scoring_team).
InitLabelCall ==
    labelCall \in [home_before : LabelScores, away_before : LabelScores,
                   home_after : LabelScores, away_after : LabelScores,
                   scoring_team : {"home", "away"}, done : {FALSE}, out : {""}]

\* One call of _impact_label returns.
CallImpactLabel ==
    /\ labelCall.done = FALSE
    /\ labelCall' = [labelCall EXCEPT
                       !.done = TRUE,
                       !.out = ImpactLabel(labelCall.home_before, labelCall.away_before,
                                           labelCall.home_after, labelCall.away_after,
                                           labelCall.scoring_team)]
    /\ UNCHANGED <<callVars, apiVars, breakCall, conc, twin, injuryCall>>

\* Most candidates a call of _apply_injuries is given.
MaxCandidates == 2

\* The players a call of _apply_injuries may name.
InjuryPlayers == {1, 2}

InjuryStatuses == {"healthy", "questionable"}

\* injury_probability of the rules of the service: never, the loaded value, always.
InjuryProbabilities == {0, injury_probability_pct, 100}

\* The lists of candidates: ids of players, NoPlayerId where the row is None.
CandidateLists ==
    UNION {[1..n -> InjuryPlayers \cup {NoPlayerId}] : n \in 0..MaxCandidates}

\* The row of a candidate as _apply_injuries reads it.
CandidateRow(id) ==
    IF id = NoPlayerId THEN NoPlayer ELSE [NoPlayer EXCEPT !.present = TRUE, !.id = id]

CandidateRows(ids) == [i \in DOMAIN ids |-> CandidateRow(ids[i])]

\* The players table of the call, injury_status only.
InjuryTable(statuses) ==
    [players |-> [id \in DOMAIN statuses |-> [injury_status |-> statuses[id]]]]

IdleInjuryCall == [probability |-> 0, table |-> [i \in 1..RngPeriod |-> 0],
                   candidates |-> <<>>, before |-> [id \in InjuryPlayers |-> "healthy"],
                   done |-> TRUE, injuries |-> <<>>,
                   after |-> [id \in InjuryPlayers |-> "healthy"]]

\* Any call _apply_injuries(connection, rng, candidates) on any earlier statuses.
InitInjuryCall ==
    \E probability \in InjuryProbabilities, table \in RngTables,
       candidates \in CandidateLists, before \in [InjuryPlayers -> InjuryStatuses] :
        injuryCall = [probability |-> probability, table |-> table,
                      candidates |-> candidates, before |-> before, done |-> FALSE,
                      injuries |-> <<>>, after |-> before]

\* The call of _apply_injuries has returned r.
InjuriesApplied(r) ==
    injuryCall' = [injuryCall EXCEPT
                     !.done = TRUE,
                     !.injuries = r.injuries,
                     !.after = [id \in InjuryPlayers |-> r.db.players[id].injury_status]]

\* One call of _apply_injuries returns.
CallApplyInjuries ==
    /\ injuryCall.done = FALSE
    /\ InjuriesApplied(ApplyInjuriesWith(injuryCall.probability,
                                         InjuryTable(injuryCall.before),
                                         NewRng(injuryCall.table),
                                         CandidateRows(injuryCall.candidates), 1, <<>>))
    /\ UNCHANGED <<callVars, apiVars, breakCall, conc, twin, labelCall>>

\* No call of a single service method is in progress.
IdleUnit ==
    /\ labelCall = IdleLabelCall
    /\ injuryCall = IdleInjuryCall

\* No request or call of the side-by-side runs is in progress.
IdleAux ==
    /\ breakCall = IdleBreakCall
    /\ conc = IdleConc
    /\ twin = IdleTwin
    /\ IdleUnit

IdleRngTab == [i \in 1..RngPeriod |-> 0]

\* _generate_scores on every sampled input.
InitScores ==
    /\ InitScoreCall
    /\ statCall = IdleStatCall
    /\ logCall = IdleLogCall
    /\ tradeReq = IdleTradeReq
    /\ rngTab = IdleRngTab
    /\ SeededTables
    /\ IdleAux

NextScores == CallGenerateScores

SpecScores == InitScores /\ [][NextScores]_vars

\* _generate_team_stats on every sampled input.
InitStats ==
    /\ InitStatCall
    /\ scoreCall = IdleScoreCall
    /\ logCall = IdleLogCall
    /\ tradeReq = IdleTradeReq
    /\ rngTab = IdleRngTab
    /\ SeededTables
    /\ IdleAux

NextStats == CallGenerateTeamStats

SpecStats == InitStats /\ [][NextStats]_vars

\* _generate_play_log on every sampled input.
InitLog ==
    /\ InitLogCall
    /\ scoreCall = IdleScoreCall
    /\ statCall = IdleStatCall
    /\ tradeReq = IdleTradeReq
    /\ rngTab = IdleRngTab
    /\ SeededTables
    /\ IdleAux

NextLog == CallGeneratePlayLog

SpecLog == InitLog /\ [][NextLog]_vars

\* One trade request against a league in which free agents are being signed.
InitTrade ==
    /\ InitTradeReq
    /\ scoreCall = IdleScoreCall
    /\ statCall = IdleStatCall
    /\ logCall = IdleLogCall
    /\ rngTab = IdleRngTab
    /\ SeededTables
    /\ IdleAux

NextTrade ==
    \/ ExecuteTrade
    \/ ProposeTrade
    \/ \E team_id \in Teams, player_id \in FreeAgents : SignFreeAgent(team_id, player_id)

SpecTrade == InitTrade /\ [][NextTrade]_vars

\* Depth chart updates of at most MaxEntries entries.
MaxEntries == 2

SlotInputs == {Slot("QB", 1), Slot("WR", 1), Slot("QB", 0), EmptySlot}

PlayerIdInputs == {NoPlayerId, 1}

EntryInputs == {DepthEntry(slot, player_id) : slot \in SlotInputs, player_id \in PlayerIdInputs}

EntryLists == UNION {[1..n -> EntryInputs] : n \in 0..MaxEntries}

\* Signings against the roster leagues, any team id and any player id.
InitRoster ==
    /\ players \in RosterLeagues
    /\ picks = InitialPicks
    /\ tradeReq = IdleTradeReq
    /\ last = IdleLast
    /\ scoreCall = IdleScoreCall
    /\ statCall = IdleStatCall
    /\ logCall = IdleLogCall
    /\ rngTab = IdleRngTab
    /\ games = InitialGames
    /\ events = NoEvents
    /\ statRows = NoStats
    /\ narratives = NoNarratives
    /\ now = 1
    /\ IdleAux

NextRoster ==
    \E team_id \in TeamIds, player_id \in DOMAIN players \cup {Len(players) + 1} :
        SignFreeAgent(team_id, player_id)

SpecRoster == InitRoster /\ [][NextRoster]_vars

\* Depth chart updates against the roster leagues, any team id and entry list.
NextDepth ==
    \E team_id \in TeamIds, entries \in EntryLists : UpdateDepthChart(team_id, entries)

SpecDepth == InitRoster /\ [][NextDepth]_vars

\* The same game simulated in two databases with the same rosters.
InitTwin ==
    /\ rngTab \in RngTables
    /\ twin \in [roster : TwinRosters, game : DOMAIN InitialGames,
                  a : {IdleSide}, b : {IdleSide}]
    /\ scoreCall = IdleScoreCall
    /\ statCall = IdleStatCall
    /\ logCall = IdleLogCall
    /\ tradeReq = IdleTradeReq
    /\ SeededTables
    /\ breakCall = IdleBreakCall
    /\ conc = IdleConc
    /\ IdleUnit

\* Database a is simulated when the clock starts, database b at any time.
NextTwin ==
    \/ \E detailed \in BOOLEAN : TwinSimulate("a", detailed, 1)
    \/ \E detailed \in BOOLEAN, played_at \in 1..MaxNow : TwinSimulate("b", detailed, played_at)

SpecTwin == InitTwin /\ [][NextTwin]_vars

\* _score_breakdown on every score and stream.
InitBreak ==
    /\ InitBreakCall
    /\ scoreCall = IdleScoreCall
    /\ statCall = IdleStatCall
    /\ logCall = IdleLogCall
    /\ tradeReq = IdleTradeReq
    /\ rngTab = IdleRngTab
    /\ SeededTables
    /\ conc = IdleConc
    /\ twin = IdleTwin
    /\ IdleUnit

NextBreak == CallScoreBreakdown

SpecBreak == InitBreak /\ [][NextBreak]_vars

\* Calls of _impact_label on their own.
InitLabel ==
    /\ InitLabelCall
    /\ injuryCall = IdleInjuryCall
    /\ scoreCall = IdleScoreCall
    /\ statCall = IdleStatCall
    /\ logCall = IdleLogCall
    /\ tradeReq = IdleTradeReq
    /\ rngTab = IdleRngTab
    /\ SeededTables
    /\ breakCall = IdleBreakCall
    /\ conc = IdleConc
    /\ twin = IdleTwin

NextLabel == CallImpactLabel

SpecLabel == InitLabel /\ [][NextLabel]_vars

\* Calls of _apply_injuries on their own.
InitInjury ==
    /\ InitInjuryCall
    /\ labelCall = IdleLabelCall
    /\ scoreCall = IdleScoreCall
    /\ statCall = IdleStatCall
    /\ logCall = IdleLogCall
    /\ tradeReq = IdleTradeReq
    /\ rngTab = IdleRngTab
    /\ SeededTables
    /\ breakCall = IdleBreakCall
    /\ conc = IdleConc
    /\ twin = IdleTwin

NextInjury == CallApplyInjuries

SpecInjury == InitInjury /\ [][NextInjury]_vars

\* Two week simulation requests side by side.
InitConc ==
    /\ rngTab \in RngTables
    /\ scoreCall = IdleScoreCall
    /\ statCall = IdleStatCall
    /\ logCall = IdleLogCall
    /\ tradeReq = IdleTradeReq
    /\ SeededTables
    /\ IdleAux

NextConc ==
    \/ \E r \in Requests, week \in ConcWeeks, detailed \in BOOLEAN : ConcRead(r, week, detailed)
    \/ \E r \in Requests : ConcReject(r, ConcOutcome(r))
    \/ \E r \in Requests : ConcSimulate(r, ConcOutcome(r))
    \/ \E r \in Requests : ConcBusy(r, ConcOutcome(r))
    \/ \E r \in Requests : ConcCommit(r)

SpecConc == InitConc /\ [][NextConc]_vars

\* Week simulation requests in any order while time passes.
InitWeek ==
    /\ rngTab \in RngTables
    /\ scoreCall = IdleScoreCall
    /\ statCall = IdleStatCall
    /\ logCall = IdleLogCall
    /\ tradeReq = IdleTradeReq
    /\ SeededTables
    /\ IdleAux

NextWeek ==
    \/ \E week \in 1..MaxWeek, detailed \in BOOLEAN : SimulateWeek(week, detailed)
    \/ Tick

SpecWeek == InitWeek /\ [][NextWeek]_vars

\* No game of the schedule has been played.
FreshSchedule == \A g \in DOMAIN games : games[g].played_at = 0

\* Week simulation requests for a schedule of which one game was played on its own
\* before.
NextPart ==
    \/ \E game_id \in DOMAIN InitialGames, detailed \in BOOLEAN :
          FreshSchedule /\ SimulateGameAlone(game_id, detailed)
    \/ \E week \in 1..MaxWeek, detailed \in BOOLEAN : SimulateWeek(week, detailed)
    \/ Tick

SpecPart == InitWeek /\ [][NextPart]_vars

\* The trade requests sent to the league below: team 1 offers nothing, its pick or
\* its receiver and asks team 2 for nothing or for its second quarterback.
LeagueTrades ==
    [endpoint : {"execute", "propose"}, team_a : {1}, team_b : {2},
     offer : {<<>>, <<PickAsset(2025, 1)>>, <<PlayerAsset(2)>>},
     request : {<<>>, <<PlayerAsset(4)>>}, done : {FALSE}]

\* The depth chart updates sent to the league below: no entry, a starter named, a
\* slot without a number.
LeagueEntryLists ==
    {<<>>, <<DepthEntry(Slot("QB", 1), 1)>>, <<DepthEntry(Slot("QB", 0), 1)>>}

\* One trade request, signings, depth chart updates and simulations of the first
\* week in any order against the seeded league.
InitLeague ==
    /\ tradeReq \in LeagueTrades
    /\ scoreCall = IdleScoreCall
    /\ statCall = IdleStatCall
    /\ logCall = IdleLogCall
    /\ rngTab = IdleRngTab
    /\ SeededTables
    /\ IdleAux

NextLeague ==
    \/ ExecuteTrade
    \/ ProposeTrade
    \/ \E team_id \in TeamIds, player_id \in FreeAgents : SignFreeAgent(team_id, player_id)
    \/ \E team_id \in Teams, entries \in LeagueEntryLists : UpdateDepthChart(team_id, entries)
    \/ \E detailed \in BOOLEAN : SimulateWeek(1, detailed)

SpecLeague == InitLeague /\ [][NextLeague]_vars

(***************************************************************************)
(* Properties                                                              *)
(***************************************************************************)
\* C1: for every pair of ratings, noise samples and coin flip, _generate_scores
\* returns home_score /= away_score, also when both clamped scores sit on
\* min_score or on max_score before the tie-break.
C1_NoTie == scoreCall.done => scoreCall.out.home /= scoreCall.out.away

\* C2: both scores returned by _generate_scores lie in [min_score, max_score],
\* also after the tie-break adjustment of +/-3.
C2_ScoresInRange ==
    scoreCall.done =>
        /\ scoreCall.out.home \in min_score..max_score
        /\ scoreCall.out.away \in min_score..max_score

\* A tie at max_score whose tie-break adds 3 and is clamped back.
C2_TieBreakAtMaxScore ==
    /\ scoreCall.done
    /\ scoreCall.out.tied
    /\ scoreCall.out.pre = max_score
    /\ scoreCall.coinHigh
    /\ scoreCall.out.home = max_score

\* team_id, status and depth slot of every player.
SlotView(ps) ==
    [id \in DOMAIN ps |->
        [team_id |-> ps[id].team_id, status |-> ps[id].status,
         depth_chart_order |-> ps[id].depth_chart_order,
         depth_chart_position |-> ps[id].depth_chart_position]]

\* team_id of every pick.
OwnerView(pk) == [id \in DOMAIN pk |-> pk[id].team_id]

\* The step in which the trade request is handled.
TradeHandled == ~tradeReq.done /\ tradeReq'.done

\* C3: a trade rejected at any stage leaves every player's team_id, status and
\* depth slot and every pick's team_id as they were before the call, both in the
\* tables the call's connection sees when the call ends and in the committed
\* tables; a rejection after the provisional moves undoes them.
C3_RejectedTradeChangesNothing ==
    [][(TradeHandled /\ last'.status = "rejected") =>
          /\ SlotView(last'.players) = SlotView(players)
          /\ OwnerView(last'.picks) = OwnerView(picks)
          /\ SlotView(players') = SlotView(players)
          /\ OwnerView(picks') = OwnerView(picks)]_vars

\* A trade rejected by the elite QB check, after the assets were moved.
C3_RejectedAfterMoves ==
    /\ tradeReq.done
    /\ last.op = "execute"
    /\ last.status = "rejected"
    /\ last.stage = "elite_qb"
    /\ tradeReq.offer /= <<>>

NamedPicks(asset, team_id) ==
    {k \in DOMAIN picks : /\ picks[k].team_id = team_id
                          /\ picks[k].year = asset.year
                          /\ picks[k].round = asset.round}

\* Every asset of the list belongs to team `to` after the step.
MovedTo(assets, from, to) ==
    \A i \in DOMAIN assets :
        IF assets[i].type = "player"
        THEN players'[assets[i].player_id].team_id = to
        ELSE \A k \in NamedPicks(assets[i], from) : picks'[k].team_id = to

ListedPlayers(assets) ==
    {assets[i].player_id : i \in {j \in DOMAIN assets : assets[j].type = "player"}}

ListedPicks(assets, team_id) ==
    UNION {NamedPicks(assets[i], team_id) : i \in {j \in DOMAIN assets : assets[j].type = "pick"}}

RECURSIVE SumPoints(_, _, _)
SumPoints(plays, team, n) ==
    IF n = 0 THEN 0
    ELSE (IF plays[n].team = team THEN plays[n].points ELSE 0) + SumPoints(plays, team, n - 1)

\* C7: in the play log the points of the home plays sum to home_score, those of
\* the away plays to away_score, each play's running score is the per-team sum
\* of the points up to and including it, and the last play's running score is
\* (home_score, away_score).
C7_PlayLogAddsUp ==
    logCall.done =>
        LET plays == logCall.plays
            n == Len(plays)
        IN  /\ SumPoints(plays, "home", n) = logCall.home_score
            /\ SumPoints(plays, "away", n) = logCall.away_score
            /\ \A i \in 1..n :
                  /\ plays[i].score.home = SumPoints(plays, "home", i)
                  /\ plays[i].score.away = SumPoints(plays, "away", i)
            /\ n > 0 => /\ plays[n].score.home = logCall.home_score
                        /\ plays[n].score.away = logCall.away_score

\* A log in which both teams score, an away play coming before a home play.
C7_BothTeamsScore ==
    /\ logCall.done
    /\ Len(logCall.plays) >= 4
    /\ \E i, j \in DOMAIN logCall.plays :
          /\ i < j
          /\ logCall.plays[i].team = "away"
          /\ logCall.plays[j].team = "home"
          /\ logCall.plays[j].score.away > 0

\* C8: the sequence values of a play log are 1..N in list order, every quarter
\* is in 1..4, the quarter never decreases along the log and within one quarter
\* the clock (time remaining) never increases.
C8_PlayLogInGameOrder ==
    logCall.done =>
        LET plays == logCall.plays
        IN  \A i \in DOMAIN plays :
              /\ plays[i].sequence = i
              /\ plays[i].quarter \in 1..4
              /\ i < Len(plays) =>
                    /\ plays[i].quarter <= plays[i + 1].quarter
                    /\ plays[i].quarter = plays[i + 1].quarter =>
                          ClockSeconds(plays[i].clock) >= ClockSeconds(plays[i + 1].clock)

\* A log that crosses a quarter and has two plays at different times of one
\* quarter, the merged events not being in time order before the sort.
C8_LogAcrossQuarters ==
    /\ logCall.done
    /\ \E i, j \in DOMAIN logCall.plays :
          /\ j = i + 1
          /\ logCall.plays[i].quarter < logCall.plays[j].quarter
          /\ logCall.plays[i].team = "away"
          /\ logCall.plays[j].team = "home"
    /\ \E i \in DOMAIN logCall.plays :
          /\ i < Len(logCall.plays)
          /\ logCall.plays[i].quarter = logCall.plays[i + 1].quarter
          /\ ClockSeconds(logCall.plays[i].clock) > ClockSeconds(logCall.plays[i + 1].clock)

\* C9: every value _generate_team_stats produces is >= 0: the yards, the
\* touchdown counts, interceptions, tackles, sacks, forced turnovers, the team's
\* turnovers and its total_yards.
C9_StatsNonNegative ==
    statCall.done =>
        /\ statCall.out.total_yards >= 0
        /\ statCall.out.turnovers >= 0
        /\ \A i \in DOMAIN statCall.out.players :
              LET line == statCall.out.players[i]
              IN  /\ line.passing_yards >= 0
                  /\ line.passing_tds >= 0
                  /\ line.interceptions >= 0
                  /\ line.rushing_yards >= 0
                  /\ line.rushing_tds >= 0
                  /\ line.receiving_yards >= 0
                  /\ line.receiving_tds >= 0
                  /\ line.tackles >= 0
                  /\ line.sacks_x10 >= 0
                  /\ line.forced_turnovers >= 0

\* A game of the week of the last request has been played.
WeekPlayed(week) == \E g \in DOMAIN games : games[g].week = week /\ games[g].played_at /= 0

\* C10: once a game's played_at is set, its home_score, away_score and
\* played_at never change again, and every later simulate_week request for its
\* week is rejected with the 'already simulated' error.
C10_PlayedGameStaysAsItIs ==
    [][/\ \A g \in DOMAIN games : games[g].played_at /= 0 => games'[g] = games[g]
       /\ (last' /= last /\ last'.op = "simulate" /\ WeekPlayed(last'.week)) =>
             /\ last'.status = "rejected"
             /\ last'.code = 400
             /\ last'.detail = "Game already simulated"]_vars

\* A second simulate_week request for a played week has been rejected.
C10_ResimulationRejected ==
    /\ last.op = "simulate"
    /\ last.status = "rejected"
    /\ last.code = 400
    /\ WeekPlayed(last.week)
    /\ \E g \in DOMAIN games : games[g].week = last.week /\ games[g].played_at < now

\* Sum of the entries of a sequence of integers.
SumSeq(seq) ==
    LET at(i) == seq[i] IN SumOver(DOMAIN seq, at)

\* C17: for every integer score in [0, max_score] and every shuffle order, the
\* list _score_breakdown returns has only positive entries and sums exactly to
\* the score; for 0 it is the empty list.
C17_BreakdownConservesScore ==
    breakCall.done =>
        /\ \A i \in DOMAIN breakCall.out : breakCall.out[i] > 0
        /\ SumSeq(breakCall.out) = breakCall.score
        /\ (breakCall.score = 0 => breakCall.out = <<>>)

\* A score of 13 decomposed into 7, 3 and 3, the shuffle having moved the 7.
C17_ThirteenShuffled ==
    /\ breakCall.done
    /\ breakCall.score = 13
    /\ Len(breakCall.out) = 3
    /\ breakCall.out[1] = 3
    /\ \E i \in DOMAIN breakCall.out : breakCall.out[i] = 7

\* C11: when two simulate_week requests run at the same time on connections of
\* their own, no game has its result written by both: each game is simulated at
\* most once.
C11_GameSimulatedOnce ==
    \A g \in DOMAIN conc.writes : Len(conc.writes[g]) <= 1

\* A signing request whose team exists and whose player is a free agent, the
\* team's active payroll plus the player's salary above the cap.
SignOverCap(ps, team_id, player_id) ==
    /\ TeamExists(team_id)
    /\ player_id \in DOMAIN ps
    /\ ps[player_id].status = "free_agent"
    /\ cap_total([players |-> ps], team_id) + ps[player_id].salary > salary_cap

\* The response carries the cap-violation reason.
CapViolationAnswer(response) ==
    /\ response.status = "rejected"
    /\ response.code = 400
    /\ response.detail = "Signing would exceed salary cap"

\* After a rejected signing the player's team, status and depth slot are the
\* committed ones of before the call.
RejectedSigningKeepsPlayer ==
    (last'.op = "sign" /\ last'.status = "rejected"
        /\ last'.input.player_id \in DOMAIN players) =>
        SlotView(players')[last'.input.player_id] = SlotView(players)[last'.input.player_id]

\* C12: a signing of a free agent by a team with fewer than roster_max active
\* players is rejected with the cap-violation reason whenever the team's active
\* payroll plus the player's salary is greater than salary_cap, and after any
\* rejected signing the player's team_id, status and depth slot are the same as
\* before the call.
C12_OverCapSigningRejected ==
    [][/\ (/\ last'.op = "sign"
           /\ SignOverCap(players, last'.input.team_id, last'.input.player_id)
           /\ Cardinality(ActiveOn([players |-> players], last'.input.team_id)) < roster_max)
          => CapViolationAnswer(last')
       /\ RejectedSigningKeepsPlayer]_vars

\* C12 as stated: every over-cap signing of a free agent carries the
\* cap-violation reason, whatever the size of the roster.
C12_OverCapAlwaysCapReason ==
    [][/\ (/\ last'.op = "sign"
           /\ SignOverCap(players, last'.input.team_id, last'.input.player_id))
          => CapViolationAnswer(last')
       /\ RejectedSigningKeepsPlayer]_vars

\* A free agent's signing has been rejected for the cap and the player is still
\* a free agent without a team.
C12_CapRejectionSeen ==
    /\ last.op = "sign"
    /\ CapViolationAnswer(last)
    /\ SignOverCap(players, last.input.team_id, last.input.player_id)
    /\ players[last.input.player_id].team_id = 0

\* The entry list names the same slot twice.
SlotNamedTwice(entries) ==
    \E i, j \in DOMAIN entries : i < j /\ entries[i].slot = entries[j].slot

\* The entry list assigns one player to two slots.
PlayerInTwoSlots(entries) ==
    \E i, j \in DOMAIN entries :
        /\ i < j
        /\ entries[i].player_id /= NoPlayerId
        /\ entries[i].player_id = entries[j].player_id

\* The entry list uses a slot that is not a position followed by a number.
SlotMalformed(entries) ==
    \E i \in DOMAIN entries : entries[i].slot.position = "" \/ entries[i].slot.order = 0

\* The entry list names a player who is not on the team.
PlayerNotOnTeam(ps, team_id, entries) ==
    \E i \in DOMAIN entries :
        /\ entries[i].player_id /= NoPlayerId
        /\ ~(entries[i].player_id \in DOMAIN ps /\ ps[entries[i].player_id].team_id = team_id)

\* The team is below a minimum position depth; the update moves no player to
\* another team or position and makes no player inactive.
TeamBelowDepth(ps, team_id) ==
    \E p \in Positions :
        Cardinality({id \in DOMAIN ps : /\ ps[id].team_id = team_id
                                        /\ ps[id].status = "active"
                                        /\ ps[id].position = p}) < min_position_depth[p]

\* depth_chart_position and depth_chart_order of every player.
DepthView(ps) ==
    [id \in DOMAIN ps |-> <<ps[id].depth_chart_position, ps[id].depth_chart_order>>]

\* C19: update_depth_chart rejects an entry list that names the same slot
\* twice, assigns one player to two slots, uses a slot that is not a position
\* followed by a number, names a player who is not on the team, or leaves the
\* team below a minimum position depth; after any such rejection every player's
\* depth_chart_position and depth_chart_order are the same as before the call.
C19_BadDepthChartRejected ==
    [][last'.op = "depth" =>
          /\ (\/ SlotNamedTwice(last'.input.entries)
              \/ PlayerInTwoSlots(last'.input.entries)
              \/ SlotMalformed(last'.input.entries)
              \/ PlayerNotOnTeam(players, last'.input.team_id, last'.input.entries)
              \/ TeamBelowDepth(players, last'.input.team_id))
             => last'.status = "rejected"
          /\ last'.status = "rejected" => DepthView(players') = DepthView(players)]_vars

TeamAfterTrade(ps, id, req) ==
    IF id \in ListedPlayers(req.offer) /\ ps[id].team_id = req.team_a THEN req.team_b
    ELSE IF id \in ListedPlayers(req.request) /\ ps[id].team_id = req.team_b THEN req.team_a
    ELSE ps[id].team_id

\* The number of elite quarterbacks the trade would leave a team with.
EliteQbsAfterTrade(ps, team_id, req) ==
    Cardinality({id \in DOMAIN ps : /\ TeamAfterTrade(ps, id, req) = team_id
                                    /\ ps[id].position = "QB"
                                    /\ ps[id].overall_rating >= elite_qb_rating})

\* C14: a trade that would give team A or team B more than max_elite_qbs
\* players with position QB and overall_rating >= elite_qb_rating is rejected,
\* and after an accepted trade neither team has more than that.
C14_EliteQbLimitKept ==
    [][TradeHandled =>
          /\ (\E t \in {tradeReq.team_a, tradeReq.team_b} :
                  EliteQbsAfterTrade(players, t, tradeReq) > max_elite_qbs)
             => last'.status = "rejected"
          /\ last'.status = "accepted" =>
                \A t \in {tradeReq.team_a, tradeReq.team_b} :
                    Cardinality({id \in DOMAIN players' :
                                   /\ players'[id].team_id = t
                                   /\ players'[id].position = "QB"
                                   /\ players'[id].overall_rating >= elite_qb_rating})
                        <= max_elite_qbs]_vars

\* A trade that passed the roster, cap and depth checks and would have left
\* team B with two elite quarterbacks has been rejected for the elite QB limit.
C14_SecondEliteQbRefused ==
    /\ tradeReq.done
    /\ last.status = "rejected"
    /\ last.stage = "elite_qb"
    /\ last.detail = "Team would exceed elite QB limit"
    /\ EliteQbsAfterTrade(players, tradeReq.team_b, tradeReq) > max_elite_qbs
    /\ EliteQbsAfterTrade(players, tradeReq.team_a, tradeReq) = 0

\* The roster size the trade would leave a team with: its active players that
\* stay and the listed players that join it (a moved player is made active).
RosterAfterTrade(ps, team_id, req) ==
    Cardinality({id \in DOMAIN ps :
                   /\ TeamAfterTrade(ps, id, req) = team_id
                   /\ (ps[id].status = "active" \/ ps[id].team_id /= team_id)})

\* The roster rule for one team: further above roster_max or further below
\* roster_min than before the trade.
OutsideRosterBounds(before, after) ==
    \/ after > roster_max /\ after > before
    \/ after < roster_min /\ after < before

\* C15: a trade whose teams and assets are found is rejected for roster size
\* exactly when, for team A or team B, the post-trade roster size is above
\* roster_max and above the pre-trade size, or below roster_min and below the
\* pre-trade size; after an accepted trade each team's roster size is within
\* [roster_min, roster_max] or no further outside it than before.
C15_RosterRuleDecidesRejection ==
    [][(TradeHandled /\ last'.stage \notin {"teams", "assets"}) =>
          /\ (last'.status = "rejected" /\ last'.stage = "roster")
             <=> \E t \in {tradeReq.team_a, tradeReq.team_b} :
                    OutsideRosterBounds(Cardinality(ActiveOn([players |-> players], t)),
                                        RosterAfterTrade(players, t, tradeReq))
          /\ last'.status = "accepted" =>
                \A t \in {tradeReq.team_a, tradeReq.team_b} :
                    ~OutsideRosterBounds(Cardinality(ActiveOn([players |-> players], t)),
                                         Cardinality(ActiveOn([players |-> players'], t)))]_vars

\* C16: two simulations of the same (week, home team, away team) from
\* identical roster states produce identical scores, team stat totals and
\* player lines, whatever the mode and the time of either run.
C16_SameGameSameResult ==
    (twin.a.done /\ twin.b.done) =>
        /\ twin.a.home_score = twin.b.home_score
        /\ twin.a.away_score = twin.b.away_score
        /\ twin.a.teams = twin.b.teams
        /\ twin.a.players = twin.b.players

\* Both databases hold the game's result, one simulated in quick mode and one in
\* detailed mode at another time, and the game has player lines and points.
C16_TwoRunsCompared ==
    /\ twin.a.done
    /\ twin.b.done
    /\ twin.a.detailed /= twin.b.detailed
    /\ twin.a.played_at /= twin.b.played_at
    /\ twin.a.players /= <<>>
    /\ twin.a.home_score + twin.a.away_score > 0

\* The number of injury records a game reports for a player.
InjuryRecords(injuries, id) == Cardinality({i \in DOMAIN injuries : injuries[i] = id})

\* C18: in one simulated game, whatever the roster and with the position
\* fallbacks in use, at most one injury record is emitted per player, and a
\* player's persisted injury_status is 'questionable' exactly when a record was
\* emitted for that player.
C18_OneInjuryRecordPerPlayer ==
    \A side \in Sides :
        twin[side].done =>
            \A id \in DOMAIN twin.roster :
                /\ InjuryRecords(twin[side].injuries, id) <= 1
                /\ twin[side].injury_status[id] = "questionable"
                     <=> InjuryRecords(twin[side].injuries, id) >= 1

\* The game_events rows are the plays, one row per play in the same order, with
\* the play's sequence number, points and running score.
RowsAreThePlays(rows, plays) ==
    /\ Len(rows) = Len(plays)
    /\ \A i \in DOMAIN plays :
          /\ rows[i].sequence = plays[i].sequence
          /\ rows[i].points = plays[i].points
          /\ rows[i].home_score_after = plays[i].score.home
          /\ rows[i].away_score_after = plays[i].score.away

\* C20: a game simulated in quick mode returns an empty play list and has no
\* game_events row; a game simulated in detailed mode has as its game_events
\* rows exactly the returned plays, with the same sequence numbers, points and
\* running score.
C20_EventsAreTheReturnedPlays ==
    \A side \in Sides :
        twin[side].done =>
            IF twin[side].detailed
            THEN RowsAreThePlays(twin[side].events, twin[side].plays)
            ELSE twin[side].plays = <<>> /\ twin[side].events = <<>>

\* The same game simulated in detailed mode, with several scoring plays stored,
\* and in quick mode.
C20_DetailedAndQuickRun ==
    /\ twin.a.done
    /\ twin.a.detailed
    /\ Len(twin.a.events) >= 2
    /\ twin.a.events[Len(twin.a.events)].home_score_after = twin.a.home_score
    /\ twin.b.done
    /\ ~twin.b.detailed

\* C21: after an accepted sign_free_agent the player has status 'active', the
\* signing team's team_id and a depth slot, and is out of the free-agent pool
\* for good: no step makes a signed player a free agent again, and every later
\* sign_free_agent for the player by a team of the league is rejected with
\* 'Free agent not found'.
C21_SignedPlayerLeavesPool ==
    [][/\ (last'.op = "sign" /\ last'.status = "signed") =>
             /\ players'[last'.input.player_id].status = "active"
             /\ players'[last'.input.player_id].team_id = last'.input.team_id
             /\ players'[last'.input.player_id].depth_chart_position /= <<>>
             /\ players'[last'.input.player_id].depth_chart_order /= 0
       /\ \A id \in DOMAIN players :
             players[id].status /= "free_agent" => players'[id].status /= "free_agent"
       /\ (/\ last'.op = "sign"
           /\ TeamExists(last'.input.team_id)
           /\ last'.input.player_id \in DOMAIN players
           /\ players[last'.input.player_id].status /= "free_agent") =>
             /\ last'.status = "rejected"
             /\ last'.code = 404
             /\ last'.detail = "Free agent not found"
             /\ players' = players]_vars

\* A player signed earlier (the contract sign_player gives) has been asked for
\* by the other team, and the request was rejected with 'Free agent not found'.
C21_SecondSigningRefused ==
    /\ last.op = "sign"
    /\ last.status = "rejected"
    /\ last.detail = "Free agent not found"
    /\ last.input.player_id \in DOMAIN players
    /\ players[last.input.player_id].status = "active"
    /\ players[last.input.player_id].contract_years = max_contract_years
    /\ TeamExists(last.input.team_id)
    /\ players[last.input.player_id].team_id /= last.input.team_id

\* The positions of the player assets in a list, one per time a player is listed.
PlayerEntries(assets) == {i \in DOMAIN assets : assets[i].type = "player"}

\* Every asset of the list is owned by the team: players by team_id, picks by
\* (team_id, year, round).
AllOwned(ps, assets, team_id) ==
    \A i \in DOMAIN assets :
        IF assets[i].type = "player"
        THEN assets[i].player_id \in DOMAIN ps /\ ps[assets[i].player_id].team_id = team_id
        ELSE NamedPicks(assets[i], team_id) /= {}

\* The salaries of the listed players, one term per time a player is listed.
ListedSalaries(ps, assets) ==
    LET salaryAt(i) == ps[assets[i].player_id].salary IN SumOver(PlayerEntries(assets), salaryAt)

\* The trade breaks the roster size rule as the request counts it: players in
\* minus players out.
BreaksRosterSize(ps, req) ==
    LET a == Cardinality(ActiveOn([players |-> ps], req.team_a))
        b == Cardinality(ActiveOn([players |-> ps], req.team_b))
        out == Cardinality(PlayerEntries(req.offer))
        in == Cardinality(PlayerEntries(req.request))
    IN  OutsideRosterBounds(a, a - out + in) \/ OutsideRosterBounds(b, b - in + out)

\* The trade breaks the salary cap: payroll minus salaries out plus salaries in.
BreaksSalaryCap(ps, req) ==
    LET out == ListedSalaries(ps, req.offer)
        in == ListedSalaries(ps, req.request)
    IN  \/ cap_total([players |-> ps], req.team_a) - out + in > salary_cap
        \/ cap_total([players |-> ps], req.team_b) - in + out > salary_cap

\* The trade leaves team A or team B below a minimum position depth.
BreaksDepth(ps, req) ==
    \E t \in {req.team_a, req.team_b}, p \in Positions :
        Cardinality({id \in DOMAIN ps :
                       /\ TeamAfterTrade(ps, id, req) = t
                       /\ (ps[id].status = "active" \/ ps[id].team_id /= t)
                       /\ ps[id].position = p}) < min_position_depth[p]

\* The trade leaves team A or team B with too many elite quarterbacks.
BreaksEliteQbs(ps, req) ==
    \E t \in {req.team_a, req.team_b} : EliteQbsAfterTrade(ps, t, req) > max_elite_qbs

\* The earliest stage of the validation order whose rule the trade breaks,
\* "result" when it breaks none.
EarliestBrokenStage(ps, req) ==
    IF req.team_a = req.team_b \/ ~TeamExists(req.team_a) \/ ~TeamExists(req.team_b)
      THEN "teams"
    ELSE IF ~AllOwned(ps, req.offer, req.team_a) \/ ~AllOwned(ps, req.request, req.team_b)
      THEN "assets"
    ELSE IF BreaksRosterSize(ps, req) THEN "roster"
    ELSE IF BreaksSalaryCap(ps, req) THEN "cap"
    ELSE IF BreaksDepth(ps, req) THEN "depth"
    ELSE IF BreaksEliteQbs(ps, req) THEN "elite_qb"
    ELSE "result"

\* C22: a trade that breaks several rules is rejected at the earliest stage of
\* the order teams differ, asset ownership, roster size, salary cap, position
\* depth, elite QB; and a trade stopped at or before the salary cap check has
\* moved no asset, not even on the call's own connection.
C22_EarliestStageRejects ==
    [][TradeHandled =>
          /\ last'.stage = EarliestBrokenStage(players, tradeReq)
          /\ last'.stage /= "result" => last'.status = "rejected"
          /\ tradeReq.team_a = tradeReq.team_b =>
                last'.detail = "Teams must be different for a trade"
          /\ last'.stage \in {"teams", "assets", "roster", "cap"} =>
                /\ last'.players = players
                /\ last'.picks = picks]_vars

\* A trade that breaks both the roster size rule and the salary cap has been
\* rejected for roster size.
C22_RosterBeforeCap ==
    /\ tradeReq.done
    /\ last.status = "rejected"
    /\ last.stage = "roster"
    /\ BreaksRosterSize(players, tradeReq)
    /\ BreaksSalaryCap(players, tradeReq)

\* The call of _impact_label has returned and only the scoring team's score went up.
OnlyScorerGained ==
    /\ labelCall.done
    /\ IF labelCall.scoring_team = "home"
       THEN labelCall.home_after > labelCall.home_before
            /\ labelCall.away_after = labelCall.away_before
       ELSE labelCall.away_after > labelCall.away_before
            /\ labelCall.home_after = labelCall.home_before

\* Margin of the scoring team before the play of the call.
MarginBefore ==
    IF labelCall.scoring_team = "home" THEN labelCall.home_before - labelCall.away_before
    ELSE labelCall.away_before - labelCall.home_before

\* Margin of the scoring team after the play of the call.
MarginAfter ==
    IF labelCall.scoring_team = "home" THEN labelCall.home_after - labelCall.away_after
    ELSE labelCall.away_after - labelCall.home_after

\* C23: when only the scoring team's score increased, _impact_label returns
\* 'ties_game' if the scores are equal afterwards, else 'takes_lead' if the scoring
\* team's margin went from at most zero to above zero, 'extends_lead' if the margin
\* was positive and grew, 'cuts_deficit' if it stays negative but improved, and
\* 'keeps_pressure' otherwise.
C23_ImpactLabelByMargin ==
    OnlyScorerGained =>
        labelCall.out =
            IF labelCall.home_after = labelCall.away_after THEN "ties_game"
            ELSE IF MarginBefore <= 0 /\ MarginAfter > 0 THEN "takes_lead"
            ELSE IF MarginBefore > 0 /\ MarginAfter > MarginBefore THEN "extends_lead"
            ELSE IF MarginBefore < 0 /\ MarginAfter < 0 /\ MarginAfter > MarginBefore
                 THEN "cuts_deficit"
            ELSE "keeps_pressure"

\* The away team scores from behind and takes the lead.
C23_AwayTakesLead ==
    /\ OnlyScorerGained
    /\ labelCall.scoring_team = "away"
    /\ labelCall.away_before < labelCall.home_before
    /\ labelCall.away_after > labelCall.home_after
    /\ labelCall.out = "takes_lead"

\* The week holds a game that was played and a game that was not.
MixedWeek(week) ==
    /\ \E g \in DOMAIN games : games[g].week = week /\ games[g].played_at /= 0
    /\ \E g \in DOMAIN games : games[g].week = week /\ games[g].played_at = 0

\* The game of the week that simulate_week meets first.
FirstGameOf(week) == WeekGames(Tables, week)[1]

\* C24: a rejected simulate_week request for a week that holds both unplayed and
\* already-played games changes no game's scores or played_at, adds no stat or play
\* row and changes no player's injury_status, whatever the order of the games.
C24_RejectedWeekLeavesNoTrace ==
    [][(last'.op = "simulate" /\ last'.status = "rejected" /\ MixedWeek(last'.week)
        /\ (last' /= last \/ games' /= games \/ statRows' /= statRows
            \/ events' /= events \/ players' /= players)) =>
          /\ games' = games
          /\ statRows' = statRows
          /\ events' = events
          /\ players' = players]_vars

\* A request was rejected for a week whose first game was still unplayed, so that
\* the game was simulated on the connection before the played one was met.
C24_RejectedAfterSimulatingOne ==
    /\ last.op = "simulate"
    /\ last.status = "rejected"
    /\ last.code = 400
    /\ MixedWeek(last.week)
    /\ games[FirstGameOf(last.week)].played_at = 0

\* The entries of the call's list that name a player.
PresentEntries == {i \in DOMAIN injuryCall.candidates : injuryCall.candidates[i] /= NoPlayerId}

\* The uniform draw of entry i, in hundredths: one draw is made per entry that
\* names a player, in the order of the list.
DrawOfEntry(i) ==
    Random100(Skip(NewRng(injuryCall.table), Cardinality({k \in PresentEntries : k < i})))

EntryHurt(i) == DrawOfEntry(i) < injuryCall.probability

\* The ids of the entries up to n whose draw is below injury_probability.
RECURSIVE HurtUpTo(_)
HurtUpTo(n) ==
    IF n = 0 THEN <<>>
    ELSE IF n \in PresentEntries /\ EntryHurt(n)
      THEN Append(HurtUpTo(n - 1), injuryCall.candidates[n])
    ELSE HurtUpTo(n - 1)

\* The entries that name player id.
EntriesOf(id) == {i \in PresentEntries : injuryCall.candidates[i] = id}

\* C25: _apply_injuries marks a candidate 'questionable' and emits a record for them
\* exactly when that candidate's uniform draw is below injury_probability and sets
\* the candidate to 'healthy' otherwise, whatever the earlier status (for a player
\* listed more than once the last entry decides the status); with probability 0 no
\* record is emitted and every candidate ends healthy, with probability 1 every
\* candidate is reported and ends questionable.
C25_InjuryFollowsDraw ==
    injuryCall.done =>
        /\ injuryCall.injuries = HurtUpTo(Len(injuryCall.candidates))
        /\ \A id \in InjuryPlayers :
              IF EntriesOf(id) = {} THEN injuryCall.after[id] = injuryCall.before[id]
              ELSE injuryCall.after[id] =
                     IF EntryHurt(SetMax(EntriesOf(id))) THEN "questionable" ELSE "healthy"
        /\ injuryCall.probability = 0 =>
              /\ injuryCall.injuries = <<>>
              /\ \A i \in PresentEntries : injuryCall.after[injuryCall.candidates[i]] = "healthy"
        /\ injuryCall.probability = 100 =>
              /\ Len(injuryCall.injuries) = Cardinality(PresentEntries)
              /\ \A i \in PresentEntries :
                    injuryCall.after[injuryCall.candidates[i]] = "questionable"

\* With the loaded probability a questionable candidate drew high and ends healthy
\* while a healthy one drew low, is reported and ends questionable.
C25_OneHealedOneHurt ==
    /\ injuryCall.done
    /\ injuryCall.probability = injury_probability_pct
    /\ \E id \in InjuryPlayers :
          /\ EntriesOf(id) /= {}
          /\ injuryCall.before[id] = "questionable"
          /\ injuryCall.after[id] = "healthy"
    /\ \E id \in InjuryPlayers :
          /\ injuryCall.before[id] = "healthy"
          /\ injuryCall.after[id] = "questionable"
          /\ injuryCall.injuries = <<id>>

\* C26: starting with at most max_elite_qbs elite quarterbacks on every team, every
\* team still has at most max_elite_qbs of them after any sequence of accepted
\* signings and trades.
C26_EliteQbLimitKeptBySignings ==
    \A team_id \in Teams : EliteQbs(Tables, team_id) <= max_elite_qbs

\* The list with every asset kept where it is named first.
Deduplicated(assets) ==
    LET first(i) == \A k \in 1..(i - 1) : assets[k] /= assets[i]
        kept == {i \in DOMAIN assets : first(i)}
        nth(n) == CHOOSE i \in kept : Cardinality({k \in kept : k < i}) = n - 1
    IN  [n \in 1..Cardinality(kept) |-> assets[nth(n)]]

\* The answer and the tables of the handled request are those of the call r.
AnsweredAs(r) ==
    /\ last'.status = r.status
    /\ last'.code = r.code
    /\ last'.detail = r.detail
    /\ last'.players = r.db.players
    /\ last'.picks = r.db.picks

\* C27: execute_trade treats an asset list that names the same player or pick more
\* than once exactly like the list with the repetitions removed: same verdict, same
\* resulting state, each player counted once by the roster-size and cap checks.
C27_RepeatedAssetsCountOnce ==
    [][(TradeHandled /\ tradeReq.endpoint = "execute") =>
          AnsweredAs(execute_trade([players |-> players, picks |-> picks],
                                   tradeReq.team_a, tradeReq.team_b,
                                   Deduplicated(tradeReq.offer),
                                   Deduplicated(tradeReq.request)))]_vars

\* The player is a free agent without a team or an active player of a team.
StatusMatchesTeam(player) ==
    \/ player.status = "free_agent" /\ player.team_id = 0
    \/ player.status = "active" /\ player.team_id \in Teams

\* C28: every player is either a free agent with no team or active with a team, and
\* this stays so after any sequence of sign_free_agent, execute_trade, propose_trade,
\* update_depth_chart and simulate_week requests, accepted or rejected.
C28_StatusAndTeamAgree ==
    \A id \in DOMAIN players : StatusMatchesTeam(players[id])

\* The trade request was handled, a free agent was signed, a game was played and a
\* depth chart update has just been accepted.
C28_AllRequestsServed ==
    /\ tradeReq.done
    /\ \E id \in FreeAgents : players[id].status = "active"
    /\ \E g \in DOMAIN games : games[g].played_at /= 0
    /\ \E id \in DOMAIN players : players[id].injury_status = "questionable"
    /\ last.op = "depth"
    /\ last.status = "updated"

\* The impact labels of the plays of the log.
LogImpacts == {logCall.plays[i].impact : i \in DOMAIN logCall.plays}

\* C29: in every play log _generate_play_log produces each impact label is one of
\* 'ties_game', 'takes_lead', 'extends_lead' and 'cuts_deficit'; 'keeps_pressure'
\* never appears.
C29_NoKeepsPressureInLog ==
    logCall.done =>
        LogImpacts \subseteq {"ties_game", "takes_lead", "extends_lead", "cuts_deficit"}

\* A log in which all four labels appear.
C29_AllFourLabels ==
    /\ logCall.done
    /\ LogImpacts = {"ties_game", "takes_lead", "extends_lead", "cuts_deficit"}

\* The points of a safety, a field goal, a touchdown and a touchdown with the
\* two-point try.
ScoringValues == {2, 3, 7, 8}

\* C30: for every score in [0, max_score] every entry of the list _score_breakdown
\* returns is one of 2, 3, 7 and 8, so that every play is described as a safety, a
\* field goal or a touchdown and never as a generic 'adds N points' play.
C30_OnlyRealScoringValues ==
    breakCall.done =>
        \A i \in DOMAIN breakCall.out :
            /\ breakCall.out[i] \in ScoringValues
            /\ HighlightType(breakCall.out[i]) /= "score"

====
